---- MODULE Spec2Model ----
(***************************************************************************)
(* Model of the tnom oracle monitor: the epoch store (db_manager.py), the  *)
(* endpoint probe (check_apis.py), the alert engine (MonitoringSystem in   *)
(* main.py) and the monitor loop (monitoring_loop in main.py).             *)
(***************************************************************************)
EXTENDS Integers, Sequences, FiniteSets, TLC

VARIABLES tnom, monitoring_system, alert_yml, profile, last_tick,
          emitted, responses, healthy_apis, shutdown_event, tasks, host, metrics

vars == <<tnom, monitoring_system, alert_yml, profile, last_tick,
          emitted, responses, healthy_apis, shutdown_event, tasks, host, metrics>>

(***************************************************************************)
(* Program constants.                                                      *)
(***************************************************************************)
ONE_NIBI == 1000000
ZERO_PT_ONE == 100000
CONSECUTIVE_MISSES_THRESHOLD == 3
P2_UNSIGNED_EV_THR == 10
P1_UNSIGNED_EV_THR == 20
API_CONS_MISS_THRESHOLD == 3
MAX_BLOCK_HEIGHT_DIFF == 25
P3_MISS_THR == 10
P2_MISS_THR == 25
P1_MISS_THR == 50

(***************************************************************************)
(* Bounds of the model.                                                    *)
(***************************************************************************)
MaxConsecutive == 4
MaxUnsigned == 2
MaxApiMiss == 4
MaxFaultAt == 2
NumApis == 3
MaxTotal == 21
MaxKey == 1

\* The calls of the database set-up functions in a run.
MaxCalls == 4

\* The block heights passed to create_epoch, besides those around a
\* window boundary.
MaxHeight == 24

\* The largest max_iterations passed to run_health_check, and the pings
\* after which a loop without a cap is no longer followed.
MaxIterations == 3
MaxPings == 4

\* Three consecutive epochs: a rollover, a lagging endpoint and a skipped
\* epoch all occur.
Epochs == 0..2
None == -1

\* Tick inputs: wallet balances around the two thresholds, miss counters
\* around the first miss-parameter threshold.
Balances == {50000, 900000, 5000000}
MissCounters == {0, 51}

(***************************************************************************)
(* EpochStore: the table tnom is a function from the primary key           *)
(* slash_epoch to the row.                                                 *)
(***************************************************************************)
\* Variant of allowed_columns that also admits the key column.
allowed_columns_with_key ==
    {"slash_epoch", "miss_counter_events", "miss_counter_p1_executed",
     "miss_counter_p2_executed", "miss_counter_p3_executed",
     "unsigned_oracle_events", "price_feed_addr_balance",
     "small_balance_alert_executed", "very_small_balance_alert_executed",
     "consecutive_misses", "api_cons_miss"}

allowed_columns ==
    {"miss_counter_events", "miss_counter_p1_executed",
     "miss_counter_p2_executed", "miss_counter_p3_executed",
     "unsigned_oracle_events", "price_feed_addr_balance",
     "small_balance_alert_executed", "very_small_balance_alert_executed",
     "consecutive_misses", "api_cons_miss"}

Max(S) == CHOOSE x \in S : \A y \in S : y <= x

check_if_epoch_is_recorded(db, epoch) == epoch \in DOMAIN db

\* SELECT MAX(slash_epoch); None stands for the ValueError of an empty table.
read_last_recorded_epoch(db) ==
    IF DOMAIN db = {} THEN None ELSE Max(DOMAIN db)

\* The caller checks check_if_epoch_is_recorded first (ValueError otherwise).
read_current_epoch_data(db, epoch) == db[epoch]

\* The ValueError of write_epoch_data for a field that is None.
write_epoch_data_raises(data) == \E f \in DOMAIN data : data[f] = None

\* Variant of write_epoch_data whose UPDATE sets slash_epoch as well.
write_epoch_data_sets_key(db, data) ==
    IF data.slash_epoch \notin DOMAIN db
    THEN [e \in DOMAIN db \cup {data.slash_epoch} |->
             IF e = data.slash_epoch THEN data ELSE db[e]]
    ELSE [e \in DOMAIN db |->
             IF e = data.api_cons_miss
             THEN [data EXCEPT !.api_cons_miss = data.slash_epoch]
             ELSE db[e]]

\* INSERT; on a primary-key conflict the UPDATE binds data["slash_epoch"] to
\* api_cons_miss and data["api_cons_miss"] to the WHERE clause.
write_epoch_data(db, data) ==
    IF data.slash_epoch \notin DOMAIN db
    THEN [e \in DOMAIN db \cup {data.slash_epoch} |->
             IF e = data.slash_epoch THEN data ELSE db[e]]
    ELSE [e \in DOMAIN db |->
             IF e = data.api_cons_miss
             THEN [data EXCEPT !.slash_epoch = e,
                               !.api_cons_miss = data.slash_epoch]
             ELSE db[e]]

\* The ValueError of a field name outside the allow-list.
overwrite_single_field_raises(field) == field \notin allowed_columns

\* UPDATE tnom SET field = value WHERE slash_epoch = epoch (no row: no-op).
\* The allow-list check precedes the statement.
overwrite_single_field(db, epoch, field, value) ==
    IF field \in allowed_columns /\ epoch \in DOMAIN db
    THEN [db EXCEPT ![epoch] = [@ EXCEPT ![field] = value]]
    ELSE db

(***************************************************************************)
(* Notifier.  A tick is evaluated on a record st:                          *)
(*   db      the table,                                                    *)
(*   ms      the MonitoringSystem attributes,                              *)
(*   log     the channel calls made so far in the tick,                    *)
(*   raised  an exception is propagating to the handler of the loop,       *)
(*   fault   the index of the channel call of this tick that fails (0: no  *)
(*           call fails),                                                  *)
(*   insert_data, new_epoch  the record the loop wrote in step five and    *)
(*           whether it was the new-epoch branch that built it.            *)
(***************************************************************************)
Raise(st) == [st EXCEPT !.raised = TRUE]

\* pagerduty_alert_trigger logs and re-raises every exception.
pagerduty_alert_trigger(st, summary, severity) ==
    IF st.fault = Len(st.log) + 1
    THEN [st EXCEPT !.log = Append(@, [summary |-> summary,
                                       severity |-> severity,
                                       channel |-> "pagerduty",
                                       outcome |-> "raised"]),
                    !.raised = TRUE]
    ELSE [st EXCEPT !.log = Append(@, [summary |-> summary,
                                       severity |-> severity,
                                       channel |-> "pagerduty",
                                       outcome |-> "ok"])]

\* str.lower on the severities the model passes.
lower(severity) ==
    CASE severity \in {"critical", "CRITICAL", "Critical"} -> "critical"
      [] severity \in {"error", "ERROR", "Error"} -> "error"
      [] severity \in {"warning", "WARNING", "Warning"} -> "warning"
      [] severity \in {"info", "INFO", "Info"} -> "info"
      [] severity \in {"fatal", "FATAL"} -> "fatal"
      [] severity = "Warn" -> "warn"
      [] OTHER -> severity

valid_severities == {"critical", "error", "warning", "info"}

\* Variant of validate_severity_raises that compares the severity as given.
validate_severity_raises_exact(severity) == severity \notin valid_severities

\* validate_severity raises ValueError.
validate_severity_raises(severity) ==
    lower(severity) \notin valid_severities

\* The None that pagerduty_alert_trigger returns, and that dict.get returns
\* for a response without a dedup key.
NoKey == "None"

\* What session.trigger does: it returns a dict, a str or something else,
\* or raises.
TriggerResponses ==
    [type : {"dict"}, dedup_key : {"k1", "k2", NoKey}]
        \cup [type : {"str"}, value : {"k1", "k2"}]
        \cup {[type |-> "other"], [type |-> "raises"]}

\* pagerduty_alert_trigger as a function of the severity and of what
\* session.trigger does: the events triggered, the value returned and the
\* exception raised.
pagerduty_alert_trigger_call(severity, response) ==
    IF validate_severity_raises(severity)
    THEN [events |-> 0, raised |-> "ValueError", result |-> NoKey]
    ELSE IF response.type = "raises"
    THEN [events |-> 1, raised |-> "Exception", result |-> NoKey]
    ELSE [events |-> 1, raised |-> "",
          result |-> CASE response.type = "dict" -> response.dedup_key
                       [] response.type = "str" -> response.value
                       [] OTHER -> NoKey]

\* telegram_alert_trigger logs a TelegramError / NetworkError and returns None.
telegram_alert_trigger(st, summary, severity) ==
    [st EXCEPT !.log = Append(@, [summary |-> summary,
                                  severity |-> severity,
                                  channel |-> "telegram",
                                  outcome |-> IF st.fault = Len(st.log) + 1
                                              THEN "failed" ELSE "ok"])]

\* The dispatch every alert site repeats: PagerDuty first, then Telegram.
send_alert(st, cfg, summary, severity) ==
    LET telegram(a) ==
            IF a.raised \/ ~cfg.telegram_alerts THEN a
            ELSE telegram_alert_trigger(a, summary, severity)
    IN  telegram(IF cfg.pagerduty_alerts
                 THEN pagerduty_alert_trigger(st, summary, severity)
                 ELSE st)

(***************************************************************************)
(* MonitoringSystem.                                                       *)
(***************************************************************************)
no_alert_sent ==
    [consecutive |-> FALSE, total |-> FALSE, critical |-> FALSE,
     healthy_api_missing |-> FALSE]

MonitoringSystemInit ==
    [consecutive_misses |-> 0, last_alert_epoch |-> None,
     api_consecutive_misses |-> 0, alert_sent |-> no_alert_sent]

reset_for_new_epoch(ms) ==
    [ms EXCEPT !.consecutive_misses = 0, !.alert_sent = no_alert_sent]

\* The prologue of process_signing_alerts and process_api_not_working.
enter_epoch(ms, epoch) ==
    IF ms.last_alert_epoch # epoch
    THEN [reset_for_new_epoch(ms) EXCEPT !.last_alert_epoch = epoch]
    ELSE ms

\* The notifier call precedes the store update: a raising call leaves the
\* latch as it was.
trigger_balance_alert(st, cfg, epoch, level, summary, field, new_value) ==
    LET overwrite(a) ==
            IF a.raised THEN a
            ELSE [a EXCEPT !.db = overwrite_single_field(@, epoch, field,
                                                         new_value)]
    IN  overwrite(send_alert(st, cfg, summary, level))

balance_alert(st, cfg, query_data, current_data, threshold, field, critical_message, recovery_message) ==
    IF st.raised THEN st
    ELSE IF query_data.wallet_balance < threshold /\ current_data[field] = 0
    THEN trigger_balance_alert(st, cfg, query_data.current_epoch, "critical",
                               critical_message, field, 1)
    ELSE IF query_data.wallet_balance >= threshold /\ current_data[field] # 0
    THEN trigger_balance_alert(st, cfg, query_data.current_epoch, "info",
                               recovery_message, field, 0)
    ELSE st

process_balance_alerts(st, cfg, query_data, current_data) ==
    LET a == balance_alert(st, cfg, query_data, current_data, ONE_NIBI,
                 "small_balance_alert_executed",
                 "Price feeder wallet balance has less than 1 NIBI!",
                 "Price feeder wallet balance has more than 1 NIBI!")
    IN  balance_alert(a, cfg, query_data, current_data, ZERO_PT_ONE,
                 "very_small_balance_alert_executed",
                 "Price feeder wallet balance has less than 0.1 NIBI!",
                 "Price feeder wallet balance has more than 0.1 NIBI!")

\* for alert in alerts_to_send: PagerDuty, then Telegram.
RECURSIVE send_all(_, _, _)
send_all(st, cfg, alerts_to_send) ==
    IF alerts_to_send = <<>> \/ st.raised THEN st
    ELSE send_all(send_alert(st, cfg, Head(alerts_to_send), "critical"),
                  cfg, Tail(alerts_to_send))

\* Variant of next_consecutive_misses that keeps the streak on a signed tick.
next_consecutive_misses_kept(previous_data, signed) ==
    IF ~signed THEN previous_data.consecutive_misses + 1
    ELSE previous_data.consecutive_misses

\* consecutive_misses as recomputed from the stored row of the epoch.
next_consecutive_misses(previous_data, signed) ==
    IF ~signed THEN previous_data.consecutive_misses + 1 ELSE 0

process_signing_alerts(st, cfg, epoch, query_data, total_misses) ==
    IF st.raised THEN st
    ELSE IF ~check_if_epoch_is_recorded(st.db, epoch) THEN Raise(st)
    ELSE
    LET ms0 == enter_epoch(st.ms, epoch)
        previous_data == read_current_epoch_data(st.db, epoch)
        cm == next_consecutive_misses(previous_data,
                                      query_data.check_for_aggregate_votes)
        c1 == cm >= CONSECUTIVE_MISSES_THRESHOLD
              /\ ~ms0.alert_sent.consecutive
        c2 == total_misses >= P2_UNSIGNED_EV_THR /\ ~ms0.alert_sent.total
        c3 == total_misses >= P1_UNSIGNED_EV_THR /\ ~ms0.alert_sent.critical
        alerts_to_send ==
            (IF c1 THEN <<"consecutive unsigned events detected!">>
                   ELSE <<>>)
            \o (IF c2 THEN <<"Total unsigned events exceeded threshold!">>
                      ELSE <<>>)
            \o (IF c3 THEN <<"CRITICAL: Unsigned events at critical level!">>
                      ELSE <<>>)
        ms1 == [ms0 EXCEPT
                  !.consecutive_misses = cm,
                  !.alert_sent = [@ EXCEPT
                      !.consecutive = @ \/ c1,
                      !.total = @ \/ c2,
                      !.critical = @ \/ c3]]
        a == [st EXCEPT
                !.ms = ms1,
                !.db = overwrite_single_field(@, epoch, "consecutive_misses",
                                              cm)]
    IN  send_all(a, cfg, alerts_to_send)

\* alert_details reads current_data["miss_counter"], a key that the record
\* built by the loop (insert_data) does not have: KeyError before any
\* channel call or store update.
trigger_miss_parameter_alert(st, cfg, query_data, current_data, alert_level, summary, field, new_value) ==
    IF "miss_counter" \in DOMAIN current_data
    THEN LET a == send_alert(st, cfg, summary, alert_level)
         IN  [a EXCEPT !.db = overwrite_single_field(@,
                          query_data.current_epoch, field, new_value)]
    ELSE Raise(st)

miss_parameter_alert(st, cfg, query_data, current_data, field, threshold, level, summary) ==
    IF st.raised THEN st
    ELSE IF current_data.miss_counter_events > threshold
            /\ current_data[field] = 0
    THEN trigger_miss_parameter_alert(st, cfg, query_data, current_data,
                                      level, summary, field, 1)
    ELSE st

process_miss_parameter_alerts(st, cfg, query_data, current_data) ==
    LET a == miss_parameter_alert(st, cfg, query_data, current_data,
                 "miss_counter_p3_executed", P3_MISS_THR, "warning",
                 "Current miss event is above 10")
        b == miss_parameter_alert(a, cfg, query_data, current_data,
                 "miss_counter_p2_executed", P2_MISS_THR, "critical",
                 "Current miss event is above 25")
    IN  miss_parameter_alert(b, cfg, query_data, current_data,
                 "miss_counter_p1_executed", P1_MISS_THR, "critical",
                 "Current miss event is above 50")

process_api_not_working(st, cfg, epoch, no_healthy_apis) ==
    LET \* database_handler.overwrite_single_field(..., "api_cons_miss", ...)
        store(s4) ==
            IF s4.raised THEN s4
            ELSE [s4 EXCEPT !.db = overwrite_single_field(@, epoch,
                      "api_cons_miss", s4.ms.api_consecutive_misses)]
        \* the flag is set after the channel calls
        flag(s3) ==
            IF s3.raised THEN s3
            ELSE [s3 EXCEPT !.ms.alert_sent.healthy_api_missing = TRUE]
        \* Send alert for API down
        down(s2) ==
            IF s2.raised THEN s2
            ELSE IF s2.ms.api_consecutive_misses >= API_CONS_MISS_THRESHOLD
                    /\ ~s2.ms.alert_sent.healthy_api_missing
            THEN flag(send_alert(s2, cfg, "Alert: API not working!",
                                 "critical"))
            ELSE s2
        \* self.api_consecutive_misses = api_consecutive_misses
        count(s1) ==
            IF s1.raised THEN s1
            ELSE IF no_healthy_apis
            THEN [s1 EXCEPT !.ms.api_consecutive_misses = @ + 1]
            ELSE [s1 EXCEPT !.ms.api_consecutive_misses = 0,
                            !.ms.alert_sent.healthy_api_missing = FALSE]
        \* Check if we need to send recovery alert
        recovery(s0) ==
            IF ~no_healthy_apis
               /\ s0.ms.api_consecutive_misses >= API_CONS_MISS_THRESHOLD
               /\ s0.ms.alert_sent.healthy_api_missing
            THEN send_alert(s0, cfg, "Alert: API working again!", "info")
            ELSE s0
    IN  IF st.raised THEN st
        ELSE store(down(count(recovery(
                 [st EXCEPT !.ms = enter_epoch(@, epoch)]))))

(***************************************************************************)
(* EndpointProbe: check_apis over the configured list.  responses[i] is    *)
(* the block height returned by the i-th configured endpoint, or           *)
(* NoResponse (an exception or None).                                      *)
(***************************************************************************)
NoResponse == -1
Heights == {7170, 7174, 7199, 7200}
ProbeInputs == [1..NumApis -> Heights \cup {NoResponse}]

\* Variant of healthy_height with a strict comparison.
healthy_height_strict(max_block_height, block_height) ==
    max_block_height - block_height < MAX_BLOCK_HEIGHT_DIFF

healthy_height(max_block_height, block_height) ==
    max_block_height - block_height <= MAX_BLOCK_HEIGHT_DIFF

RECURSIVE select_apis(_, _, _)
select_apis(resp, i, max_block_height) ==
    IF i > Len(resp) THEN <<>>
    ELSE (IF resp[i] # NoResponse
             /\ healthy_height(max_block_height, resp[i])
          THEN <<i>> ELSE <<>>)
         \o select_apis(resp, i + 1, max_block_height)

\* Variant of check_apis that returns the empty list unless every endpoint
\* responded.
check_apis_all_online(resp) ==
    LET online_apis_with_data ==
            {i \in 1..Len(resp) : resp[i] # NoResponse}
    IN  IF online_apis_with_data # 1..Len(resp) THEN <<>>
        ELSE select_apis(resp, 1,
                 Max({resp[i] : i \in online_apis_with_data}))

check_apis(resp) ==
    LET online_apis_with_data ==
            {i \in 1..Len(resp) : resp[i] # NoResponse}
    IN  IF online_apis_with_data = {} THEN <<>>
        ELSE select_apis(resp, 1,
                 Max({resp[i] : i \in online_apis_with_data}))

(***************************************************************************)
(* utility.create_epoch.  An integer argument is a record: n when it fits  *)
(* a signed 64-bit integer, and beyond set for 2^63 + n, which does not.   *)
(***************************************************************************)
Int64(n) == [n |-> n, beyond |-> FALSE]

\* np.int64(x) raises OverflowError for an integer outside 64 bits.
np_int64_raises(x) == x.beyond

\* Variant of floor_divide that rounds to the nearest integer.
floor_divide_nearest(a, b) == (2 * a + b) \div (2 * b)

\* np.floor_divide on two non-negative int64 values, the divisor positive.
floor_divide(a, b) == a \div b

create_epoch(current_block_height, slash_window) ==
    IF np_int64_raises(current_block_height)
       \/ np_int64_raises(slash_window)
    THEN [raised |-> TRUE, epoch |-> None]
    ELSE [raised |-> FALSE,
          epoch |-> floor_divide(current_block_height.n, slash_window.n)]

(***************************************************************************)
(* check_aggregate_vote.  The endpoint answers two requests; h holds what  *)
(* it answers:                                                             *)
(*   status, code, has_aggregate_vote, exchange_rates  the aggregate-vote  *)
(*       response (exchange_rates is the sequence of the "pair" values,    *)
(*       "" for a tuple without one),                                      *)
(*   targets_status, vote_targets  the vote-targets response               *)
(*       (CLIENT_TIMEOUT: the request raises after its 5 seconds).         *)
(***************************************************************************)
OK == 200
NOT_FOUND == 404
CLIENT_TIMEOUT == 0
CODE_ERROR == 2

\* list | None, or the exception of the request.
collect_vote_targets(h) ==
    IF h.targets_status = CLIENT_TIMEOUT
    THEN [raised |-> TRUE, is_none |-> FALSE, vote_targets |-> {}]
    ELSE IF h.targets_status = OK
    THEN [raised |-> FALSE, is_none |-> FALSE,
          vote_targets |-> h.vote_targets]
    ELSE [raised |-> FALSE, is_none |-> TRUE, vote_targets |-> {}]

\* for exchange_rate in exchange_rates: "pair not in None" is a TypeError.
RECURSIVE exchange_rates_loop(_, _)
exchange_rates_loop(exchange_rates, voting_targets) ==
    IF exchange_rates = <<>> THEN [raised |-> FALSE, result |-> TRUE]
    ELSE IF Head(exchange_rates) # "" /\ voting_targets.is_none
    THEN [raised |-> TRUE, result |-> FALSE]
    ELSE IF Head(exchange_rates) # ""
            /\ Head(exchange_rates) \notin voting_targets.vote_targets
    THEN [raised |-> FALSE, result |-> FALSE]
    ELSE exchange_rates_loop(Tail(exchange_rates), voting_targets)

check_aggregate_vote(h) ==
    IF collect_vote_targets(h).raised
    THEN [raised |-> TRUE, result |-> FALSE]
    ELSE IF h.status # OK THEN [raised |-> FALSE, result |-> FALSE]
    ELSE IF h.code = CODE_ERROR THEN [raised |-> FALSE, result |-> FALSE]
    ELSE IF ~h.has_aggregate_vote THEN [raised |-> FALSE, result |-> FALSE]
    ELSE exchange_rates_loop(h.exchange_rates, collect_vote_targets(h))

(***************************************************************************)
(* monitoring_loop: one iteration of the while True body.                  *)
(***************************************************************************)
\* Variant of existing_epoch_data that writes the latches of a new row.
existing_epoch_data_latches_reset(db, query_data) ==
    LET read_crw_data == read_current_epoch_data(db, query_data.current_epoch)
    IN  [slash_epoch |-> query_data.current_epoch,
         miss_counter_events |-> query_data.miss_counter,
         miss_counter_p1_executed |-> 0,
         miss_counter_p2_executed |-> read_crw_data.miss_counter_p2_executed,
         miss_counter_p3_executed |-> read_crw_data.miss_counter_p3_executed,
         unsigned_oracle_events |->
             IF query_data.check_for_aggregate_votes
             THEN read_crw_data.unsigned_oracle_events
             ELSE read_crw_data.unsigned_oracle_events + 1,
         price_feed_addr_balance |-> query_data.wallet_balance,
         small_balance_alert_executed |-> 0,
         very_small_balance_alert_executed |->
             read_crw_data.very_small_balance_alert_executed,
         consecutive_misses |-> read_crw_data.consecutive_misses,
         api_cons_miss |-> read_crw_data.api_cons_miss]

\* Step 5.2a: the row of the tick's epoch exists.
existing_epoch_data(db, query_data) ==
    LET read_crw_data == read_current_epoch_data(db, query_data.current_epoch)
    IN  [slash_epoch |-> query_data.current_epoch,
         miss_counter_events |-> query_data.miss_counter,
         miss_counter_p1_executed |-> read_crw_data.miss_counter_p1_executed,
         miss_counter_p2_executed |-> read_crw_data.miss_counter_p2_executed,
         miss_counter_p3_executed |-> read_crw_data.miss_counter_p3_executed,
         unsigned_oracle_events |->
             IF query_data.check_for_aggregate_votes
             THEN read_crw_data.unsigned_oracle_events
             ELSE read_crw_data.unsigned_oracle_events + 1,
         price_feed_addr_balance |-> query_data.wallet_balance,
         small_balance_alert_executed |->
             read_crw_data.small_balance_alert_executed,
         very_small_balance_alert_executed |->
             read_crw_data.very_small_balance_alert_executed,
         consecutive_misses |-> read_crw_data.consecutive_misses,
         api_cons_miss |-> read_crw_data.api_cons_miss]

\* Variant of new_epoch_data that never carries consecutive_misses over.
new_epoch_data_no_carry(db, query_data) ==
    LET prev == query_data.current_epoch - 1
        has_prev == check_if_epoch_is_recorded(db, prev)
    IN  [slash_epoch |-> query_data.current_epoch,
         miss_counter_events |-> query_data.miss_counter,
         miss_counter_p1_executed |-> 0,
         miss_counter_p2_executed |-> 0,
         miss_counter_p3_executed |-> 0,
         unsigned_oracle_events |-> 0,
         price_feed_addr_balance |-> query_data.wallet_balance,
         small_balance_alert_executed |->
             IF has_prev THEN db[prev].small_balance_alert_executed ELSE 0,
         very_small_balance_alert_executed |->
             IF has_prev THEN db[prev].very_small_balance_alert_executed
             ELSE 0,
         consecutive_misses |-> 0,
         api_cons_miss |-> 0]

\* Step 5.2b: no row for the tick's epoch.
new_epoch_data(db, query_data) ==
    LET prev == query_data.current_epoch - 1
        has_prev == check_if_epoch_is_recorded(db, prev)
    IN  [slash_epoch |-> query_data.current_epoch,
         miss_counter_events |-> query_data.miss_counter,
         miss_counter_p1_executed |-> 0,
         miss_counter_p2_executed |-> 0,
         miss_counter_p3_executed |-> 0,
         unsigned_oracle_events |-> 0,
         price_feed_addr_balance |-> query_data.wallet_balance,
         small_balance_alert_executed |->
             IF has_prev THEN db[prev].small_balance_alert_executed ELSE 0,
         very_small_balance_alert_executed |->
             IF has_prev THEN db[prev].very_small_balance_alert_executed
             ELSE 0,
         consecutive_misses |->
             IF has_prev THEN db[prev].consecutive_misses ELSE 0,
         api_cons_miss |-> 0]

build_insert_data(db, query_data) ==
    IF check_if_epoch_is_recorded(db, query_data.current_epoch)
    THEN existing_epoch_data(db, query_data)
    ELSE new_epoch_data(db, query_data)

NoData ==
    [slash_epoch |-> None, miss_counter_events |-> None,
     miss_counter_p1_executed |-> None, miss_counter_p2_executed |-> None,
     miss_counter_p3_executed |-> None, unsigned_oracle_events |-> None,
     price_feed_addr_balance |-> None,
     small_balance_alert_executed |-> None,
     very_small_balance_alert_executed |-> None,
     consecutive_misses |-> None, api_cons_miss |-> None]

NoQuery ==
    [miss_counter |-> None, check_for_aggregate_votes |-> FALSE,
     current_epoch |-> None, wallet_balance |-> None]

\* The columns that step 5.2a copies from the row it read.
PreservedColumns ==
    {"miss_counter_p1_executed", "miss_counter_p2_executed",
     "miss_counter_p3_executed", "small_balance_alert_executed",
     "very_small_balance_alert_executed", "consecutive_misses",
     "api_cons_miss"}

Preserved(row) == [f \in PreservedColumns |-> row[f]]

\* No state write on a row that existed.
NoFrame == [written |-> FALSE, before |-> Preserved(NoData),
            after |-> Preserved(NoData)]

\* The preserved columns of the row of epoch before and after
\* write_epoch_data(insert_data).
write_frame(db, epoch, insert_data) ==
    IF check_if_epoch_is_recorded(db, epoch)
    THEN [written |-> TRUE, before |-> Preserved(db[epoch]),
          after |-> Preserved(write_epoch_data(db, insert_data)[epoch])]
    ELSE NoFrame

\* Steps three to five and the three alert families, for a tick whose
\* probe found a healthy endpoint.  Returns the tick record st, extended
\* with insert_data and the branch of step five that built it.
monitoring_tick(db, ms, cfg, query_data, collected, fault) ==
    LET st0 == [db |-> db, ms |-> ms, log |-> <<>>, raised |-> FALSE,
                fault |-> fault, insert_data |-> NoData,
                new_epoch |-> FALSE, frame |-> NoFrame]
        \* Step six: the three alert families on insert_data.
        alerts(s2) ==
            process_miss_parameter_alerts(
                process_signing_alerts(
                    process_balance_alerts(s2, cfg, query_data,
                                           s2.insert_data),
                    cfg, query_data.current_epoch, query_data,
                    s2.insert_data.unsigned_oracle_events),
                cfg, query_data, s2.insert_data)
        \* Step five: write_epoch_data(database_path, insert_data).
        write(s1, insert_data) ==
            IF write_epoch_data_raises(insert_data) THEN Raise(s1)
            ELSE [s1 EXCEPT
                    !.db = write_epoch_data(@, insert_data),
                    !.insert_data = insert_data,
                    !.frame = write_frame(s1.db, query_data.current_epoch,
                                          insert_data),
                    !.new_epoch = ~check_if_epoch_is_recorded(
                                       s1.db, query_data.current_epoch)]
        \* Step four onwards.
        collect(s1) ==
            IF s1.raised THEN s1
            ELSE IF ~collected THEN Raise(s1)
            ELSE alerts(write(s1, build_insert_data(s1.db, query_data)))
    IN  IF read_last_recorded_epoch(db) = None THEN Raise(st0)
        ELSE collect(process_api_not_working(
                         st0, cfg, read_last_recorded_epoch(db), FALSE))

\* The while-not-healthy_apis body: the probe found no healthy endpoint.
all_down_tick(db, ms, cfg, fault) ==
    LET latest_epoch == read_last_recorded_epoch(db)
        st0 == [db |-> db, ms |-> ms, log |-> <<>>, raised |-> FALSE,
                fault |-> fault, insert_data |-> NoData,
                new_epoch |-> FALSE]
    IN  IF latest_epoch = None THEN Raise(st0)
        ELSE process_api_not_working(st0, cfg, latest_epoch, TRUE)

(***************************************************************************)
(* main(): the tasks of the event loop.  Each task is at a suspension      *)
(* point (pc) and carries the cancellation request of Task.cancel().       *)
(***************************************************************************)
Task(pc) == [pc |-> pc, must_cancel |-> FALSE]

\* Before main() creates the tasks.
NoTasks ==
    [main |-> Task("absent"), monitoring_task |-> Task("absent"),
     health_check_task_obj |-> Task("absent"),
     prometheus_task |-> Task("absent"), update_task |-> Task("absent")]

Exited == {"absent", "done", "returned"}

\* Variant of cancelled in which Task.cancel() has no effect on a task.
cancelled_ignored(t) == FALSE

\* The task resumes with CancelledError.
cancelled(t) == tasks[t].must_cancel

\* task.cancel() for every task of ts that is not done.
cancel(ts) ==
    [t \in DOMAIN tasks |->
        IF t \in ts /\ tasks[t].pc \notin Exited
        THEN [tasks[t] EXCEPT !.must_cancel = TRUE]
        ELSE tasks[t]]

\* Variant of handler in which the loop ends on every exception.
handler_break == "done"

\* except Exception in monitoring_loop: break when the flag is set,
\* otherwise sleep 10 seconds.
handler == IF shutdown_event THEN "done" ELSE "backoff"

\* The suspension points monitoring_loop can reach next from pc:
\*   check_apis   await check_apis (either call),
\*   retry_sleep  the sleep of the while-not-healthy_apis loop,
\*   collect      the collector queries,
\*   alerts       the alert processing up to the shutdown check,
\*   sleep        the interval sleep,  backoff  the sleep of the handler.
monitoring_loop(pc) ==
    CASE pc \in {"start", "sleep", "backoff"} -> {"check_apis", handler}
      [] pc = "check_apis" -> {"retry_sleep", "collect", handler}
      [] pc = "retry_sleep" -> {"check_apis"}
      [] pc = "collect" -> {"alerts", handler}
      [] pc = "alerts" ->
            {IF shutdown_event THEN "done" ELSE "sleep", handler}

\* run_health_check: ping, then wait for the flag or the interval.
run_health_check(pc) ==
    CASE pc \in {"start", "wait"} ->
            IF shutdown_event THEN {"done"} ELSE {"ping"}
      [] pc = "ping" -> {"wait"}

\* periodic_metric_update: update, then sleep; an error other than OSError
\* or TimeoutError ends the task.
periodic_metric_update(pc) ==
    IF shutdown_event THEN {"done"} ELSE {"sleep", "done"}

(***************************************************************************)
(* run_health_check in full.  h holds its arguments and locals and the     *)
(* pings the dead man switch has received:                                 *)
(*   interval, max_iterations (None: no cap), iteration, pings, raised.    *)
(***************************************************************************)
\* if interval <= 0: raise ValueError.
interval_raises(interval) == interval <= 0

\* Variant of cap_reached that breaks one iteration late.
cap_reached_late(h) ==
    h.max_iterations # None /\ h.iteration > h.max_iterations

\* if max_iterations is not None and iteration >= max_iterations: break.
cap_reached(h) ==
    h.max_iterations # None /\ h.iteration >= h.max_iterations

\* The loop condition and the cap: the task ends or starts the next ping.
health_check_loop(h) ==
    IF shutdown_event \/ cap_reached(h) THEN "done" ELSE "ping"

(***************************************************************************)
(* main(): start-up.  host is what the process finds outside itself (the   *)
(* files, what the database set-up does) and the exit code it leaves.      *)
(***************************************************************************)
\* Outside the start-up and the file system slices.
NoHost == [exit_code |-> None]

ConfigFields == {"validator_address", "APIs", "price_feed_addr"}

\* load_config_yml raises when a required field is missing.
load_config_yml_raises(data) == \E field \in ConfigFields : field \notin data

\* load_alert_yml: any() is called with two arguments, which raises
\* TypeError whatever the file holds.
load_alert_yml_raises(data) == TRUE

\* Variant of main_exit_code in which a failure to load the configuration
\* files is only logged.
main_exit_code_load_logged(h) ==
    IF ~h.config_path_exists \/ ~h.alert_path_exists THEN 1
    ELSE IF h.init_and_check_db_raises \/ h.schema_raises THEN 1
    ELSE IF ~h.telegram_alerts /\ ~h.pagerduty_alerts THEN 1
    ELSE None

\* main() up to the creation of the MonitoringSystem: the exit code, or
\* None when it goes on to create the tasks.
main_exit_code(h) ==
    IF ~h.config_path_exists \/ ~h.alert_path_exists THEN 1
    ELSE IF h.init_and_check_db_raises \/ h.schema_raises THEN 1
    ELSE IF load_config_yml_raises(h.config_data)
            \/ load_alert_yml_raises(h.alert_data) THEN 1
    ELSE IF ~h.telegram_alerts /\ ~h.pagerduty_alerts THEN 1
    ELSE None

(***************************************************************************)
(* The database set-up: set_up_db.init_and_check_db and                    *)
(* check_and_update_database_schema.  host holds the directories, whether  *)
(* the database file exists and the columns of the table in their order;   *)
(* tnom holds the rows, each a record over the columns of the table.       *)
(***************************************************************************)
Range(seq) == {seq[i] : i \in 1..Len(seq)}

\* The columns of CREATE TABLE and of expected_columns, in their order.
expected_columns ==
    <<"slash_epoch", "miss_counter_events", "miss_counter_p1_executed",
      "miss_counter_p2_executed", "miss_counter_p3_executed",
      "unsigned_oracle_events", "price_feed_addr_balance",
      "small_balance_alert_executed", "very_small_balance_alert_executed",
      "consecutive_misses", "api_cons_miss">>

\* The columns declared INTEGER DEFAULT 0.
default_columns ==
    {"miss_counter_p1_executed", "miss_counter_p2_executed",
     "miss_counter_p3_executed", "consecutive_misses", "api_cons_miss"}

\* Variant of column_default in which an added column has no default.
column_default_null(column_name) == None

\* What an existing row reads in a column added by ALTER TABLE.
column_default(column_name) ==
    IF column_name \in default_columns THEN 0 ELSE None

\* ALTER TABLE cannot add a PRIMARY KEY column: the error is logged.
add_column_raises(column_name) == column_name = "slash_epoch"

\* The loop over expected_columns from position i, on the pair of the
\* column list and the rows.
RECURSIVE add_missing_columns(_, _, _)
add_missing_columns(columns, db, i) ==
    IF i > Len(expected_columns) THEN [columns |-> columns, db |-> db]
    ELSE IF expected_columns[i] \in Range(columns)
            \/ add_column_raises(expected_columns[i])
    THEN add_missing_columns(columns, db, i + 1)
    ELSE add_missing_columns(
             Append(columns, expected_columns[i]),
             [e \in DOMAIN db |->
                 [c \in DOMAIN db[e] \cup {expected_columns[i]} |->
                     IF c \in DOMAIN db[e] THEN db[e][c]
                     ELSE column_default(c)]],
             i + 1)

\* check_and_update_database_schema on an existing database file.
check_and_update_database_schema(h, db) ==
    LET r == add_missing_columns(h.columns, db, 1)
    IN  [host |-> [h EXCEPT !.columns = r.columns,
                            !.calls = Append(@, "check_and_update_database_schema"),
                            !.raised = FALSE],
         db |-> r.db]

\* create_database_directory: mkdir of chain_database in the current
\* directory.
create_database_directory(h) ==
    [h EXCEPT !.cwd_dir = TRUE,
              !.wd_dir = IF h.wd_is_cwd THEN TRUE ELSE @]

\* create_database: sqlite3.connect raises when the directory of the file
\* does not exist.
create_database(h) ==
    IF h.wd_dir
    THEN [h EXCEPT !.db_file = TRUE, !.columns = expected_columns]
    ELSE [h EXCEPT !.raised = TRUE]

\* init_and_check_db(working_dir): the directory is looked up in the
\* current directory, the file in working_dir.
init_and_check_db(h) ==
    LET h0 == [h EXCEPT !.calls = Append(@, "init_and_check_db"),
                        !.raised = FALSE]
        h1 == IF ~h0.cwd_dir THEN create_database_directory(h0) ELSE h0
    IN  IF ~h1.db_file THEN create_database(h1) ELSE h1

(***************************************************************************)
(* PrometheusMetrics and the database file as two tasks see it.  metrics   *)
(* holds the epoch and the gauges of the PrometheusMetrics object; host    *)
(* holds the transaction a store function has open: sqlite applies the     *)
(* statement to the file and makes it visible at the commit that ends the  *)
(* with block.                                                             *)
(***************************************************************************)
GaugeFields ==
    {"slash_epoch", "miss_counter_events", "unsigned_oracle_events",
     "price_feed_addr_balance", "consecutive_misses", "api_cons_miss"}

\* The six Gauge.set calls of update_metrics.
gauges_of(data) == [f \in GaugeFields |-> data[f]]

NoMetrics ==
    [epoch |-> None, gauges |-> gauges_of(NoData), read_in_txn |-> FALSE]

\* Variant of sqlite_read in which a reader sees the pages of an open
\* transaction.
sqlite_read_uncommitted(committed, h) ==
    IF h.in_txn THEN h.uncommitted ELSE committed

\* What a SELECT of another connection reads: the committed table.
sqlite_read(committed, h) == committed

\* A row on which a statement has been applied to the first columns only.
half_written(before, after) ==
    [f \in DOMAIN after |->
        IF f \in {"slash_epoch", "miss_counter_events",
                  "miss_counter_p1_executed", "miss_counter_p2_executed",
                  "miss_counter_p3_executed", "unsigned_oracle_events"}
        THEN after[f] ELSE before[f]]

\* metrics.epoch = latest_epoch; metrics.update_metrics().
update_metrics(m, db, h) ==
    [epoch |-> read_last_recorded_epoch(sqlite_read(db, h)),
     gauges |-> gauges_of(read_current_epoch_data(
                    sqlite_read(db, h),
                    read_last_recorded_epoch(sqlite_read(db, h)))),
     read_in_txn |-> h.in_txn]

(***************************************************************************)
(* State machine.                                                          *)
(*   tnom               the table,                                         *)
(*   monitoring_system  the MonitoringSystem attributes,                   *)
(*   alert_yml          the enabled channels,                              *)
(*   last_tick          what the last iteration of the loop saw and did:   *)
(*                      the probe outcome, query_data, insert_data, the    *)
(*                      channel calls and whether it ran to the interval   *)
(*                      sleep (completed) or left through the handler, the *)
(*                      number of all-down iterations in a row and whether *)
(*                      "API not working!" went out during them,           *)
(*   emitted            the (summary, epoch) pairs of the signing and      *)
(*                      miss-parameter alerts handed to a channel so far,  *)
(*   responses, healthy_apis  argument and result of check_apis.           *)
(***************************************************************************)
AlertConfigs ==
    {[pagerduty_alerts |-> TRUE, telegram_alerts |-> FALSE],
     [pagerduty_alerts |-> FALSE, telegram_alerts |-> TRUE],
     [pagerduty_alerts |-> TRUE, telegram_alerts |-> TRUE]}

\* The environment of a run varies one input of the collector at a time;
\* the other inputs keep their quiet value (signed, no misses, full wallet).
\* The "mixed" environment stays in epoch 0 and varies the vote and the
\* wallet together, so that a tick can have a balance alert and an
\* unsigned event at once.
Profiles == {"balance", "signing", "miss_counter", "outage", "mixed"}

Queries(p) ==
    [miss_counter : IF p = "miss_counter" THEN MissCounters ELSE {0},
     check_for_aggregate_votes :
         IF p \in {"signing", "mixed"} THEN BOOLEAN ELSE {TRUE},
     current_epoch : IF p = "mixed" THEN {0} ELSE Epochs,
     wallet_balance : IF p = "balance" THEN Balances
                      ELSE IF p = "mixed" THEN {900000, 5000000}
                      ELSE {5000000}]

\* The row a fresh signed tick with a full wallet leaves (scenario 1).
SeedRow(epoch) ==
    [slash_epoch |-> epoch, miss_counter_events |-> 0,
     miss_counter_p1_executed |-> 0, miss_counter_p2_executed |-> 0,
     miss_counter_p3_executed |-> 0, unsigned_oracle_events |-> 0,
     price_feed_addr_balance |-> 5000000,
     small_balance_alert_executed |-> 0,
     very_small_balance_alert_executed |-> 0,
     consecutive_misses |-> 0, api_cons_miss |-> 0]

EmptyTable == [e \in {} |-> NoData]

\* No store function has a connection open.
NoTransaction ==
    [in_txn |-> FALSE, after |-> EmptyTable, uncommitted |-> EmptyTable]

InitialTables ==
    {EmptyTable} \cup {[e \in {e0} |-> SeedRow(e0)] : e0 \in 0..1}

NoTick ==
    [kind |-> "init", query_data |-> NoQuery, new_epoch |-> FALSE,
     insert_data |-> NoData, log |-> <<>>, completed |-> FALSE,
     down_streak |-> 0, outage_alerted |-> FALSE, streak |-> None,
     unsigned_ticks |-> 0, args |-> <<>>, frame |-> NoFrame]

\* The number of unsigned ticks in a row since a signed tick of the same
\* epoch (None when the ticks before were of another kind or epoch).
next_streak(t, q) ==
    IF q.check_for_aggregate_votes THEN 0
    ELSE IF t.kind = "monitor" /\ t.streak # None
            /\ t.streak < MaxConsecutive
            /\ t.query_data.current_epoch = q.current_epoch
    THEN t.streak + 1
    ELSE None

Init ==
    /\ tnom \in InitialTables
    /\ monitoring_system = MonitoringSystemInit
    /\ alert_yml \in AlertConfigs
    /\ profile \in Profiles
    /\ last_tick = NoTick
    /\ emitted = {}
    /\ responses = [i \in 1..NumApis |-> NoResponse]
    /\ healthy_apis = <<>>
    /\ shutdown_event = FALSE
    /\ metrics = NoMetrics
    /\ host = NoHost
    /\ tasks = NoTasks

WithinBounds(st) ==
    /\ st.ms.api_consecutive_misses <= MaxApiMiss
    /\ \A e \in DOMAIN st.db :
          /\ st.db[e].consecutive_misses <= MaxConsecutive
          /\ st.db[e].unsigned_oracle_events <= MaxUnsigned

EpochScoped ==
    {"consecutive unsigned events detected!",
     "Total unsigned events exceeded threshold!",
     "CRITICAL: Unsigned events at critical level!",
     "Current miss event is above 10",
     "Current miss event is above 25",
     "Current miss event is above 50"}

Summaries(log) == {log[i].summary : i \in 1..Len(log)}

\* read_last_recorded_epoch raises on the empty table: the iteration ends
\* in the handler before the probe.
EmptyStoreTick ==
    /\ tnom = EmptyTable
    /\ \E q \in Queries(profile) :
          last_tick' = [NoTick EXCEPT !.kind = "empty_store",
                                      !.query_data = q]
    /\ UNCHANGED <<shutdown_event, tasks, host, metrics>>
    /\ UNCHANGED <<tnom, monitoring_system, alert_yml, profile, emitted, responses,
                   healthy_apis>>

AllDownTick ==
    /\ tnom # EmptyTable
    /\ profile = "outage"
    /\ \E fault \in 0..MaxFaultAt :
          \E st \in {all_down_tick(tnom, monitoring_system, alert_yml, fault)} :
              /\ WithinBounds(st)
              /\ tnom' = st.db
              /\ monitoring_system' = st.ms
              /\ last_tick' =
                    [NoTick EXCEPT
                       !.kind = "all_down",
                       !.log = st.log,
                       !.completed = ~st.raised,
                       !.down_streak = last_tick.down_streak + 1,
                       !.outage_alerted =
                           \/ last_tick.outage_alerted
                           \/ "Alert: API not working!" \in Summaries(st.log)]
    /\ UNCHANGED <<shutdown_event, tasks, host, metrics>>
    /\ UNCHANGED <<alert_yml, profile, emitted, responses, healthy_apis>>

\* The collector queries that can yield no data.
CollectorQueries ==
    {"miss_counter", "slash_window", "latest_block", "wallet_balance"}

\* What the loop gets from the collector when the query named failed
\* yields no data: without the slash window or the latest block the
\* collector raises (NoQuery); a miss counter or a balance of None is
\* handed on in query_data.
failed_query_data(q, failed) ==
    IF failed \in {"slash_window", "latest_block"} THEN NoQuery
    ELSE [q EXCEPT ![failed] = None]

\* The answers of a healthy endpoint in a quiet epoch.
QuietQuery(epoch) ==
    [miss_counter |-> 0, check_for_aggregate_votes |-> TRUE,
     current_epoch |-> epoch, wallet_balance |-> 5000000]

\* A collector query raises or yields None; the other queries give the
\* quiet answers for the last recorded epoch.
CollectFailedTick ==
    /\ tnom # EmptyTable
    /\ \E q \in {QuietQuery(read_last_recorded_epoch(tnom))},
          failed \in CollectorQueries, fault \in 0..MaxFaultAt :
          \E st \in {monitoring_tick(tnom, monitoring_system, alert_yml,
                                     failed_query_data(q, failed),
                                     failed_query_data(q, failed) # NoQuery,
                                     fault)} :
              /\ tnom' = st.db
              /\ monitoring_system' = st.ms
              /\ last_tick' = [NoTick EXCEPT !.kind = "collect_failed",
                                             !.log = st.log]
    /\ UNCHANGED <<shutdown_event, tasks, host, metrics>>
    /\ UNCHANGED <<alert_yml, profile, emitted, responses, healthy_apis>>

\* The endpoint chosen at random is within MAX_BLOCK_HEIGHT_DIFF blocks of
\* the highest one: it reports the epoch in progress or the one before.
MonitorTick ==
    /\ tnom # EmptyTable
    /\ \E q \in Queries(profile), fault \in 0..MaxFaultAt :
          \E st \in {monitoring_tick(tnom, monitoring_system, alert_yml, q,
                                     TRUE, fault)} :
              /\ q.current_epoch >= read_last_recorded_epoch(tnom) - 1
              /\ WithinBounds(st)
              /\ tnom' = st.db
              /\ monitoring_system' = st.ms
              /\ last_tick' =
                    [NoTick EXCEPT
                       !.kind = "monitor",
                       !.query_data = q,
                       !.new_epoch = st.new_epoch,
                       !.insert_data = st.insert_data,
                       !.frame = st.frame,
                       !.log = st.log,
                       !.completed = ~st.raised,
                       !.streak = next_streak(last_tick, q)]
              /\ emitted' = emitted \cup
                    {<<m, q.current_epoch>> :
                        m \in Summaries(st.log) \cap EpochScoped}
    /\ UNCHANGED <<shutdown_event, tasks, host, metrics>>
    /\ UNCHANGED <<alert_yml, profile, responses, healthy_apis>>

Next == EmptyStoreTick \/ AllDownTick \/ CollectFailedTick \/ MonitorTick

Spec == Init /\ [][Next]_vars

\* The process stops and main() runs again on the same database file: the
\* table is kept (create_database creates it only when missing), and
\* MonitoringSystem.__init__ gives the attributes their constructor values.
\* The tick record keeps whether "API not working!" went out for the
\* outage in progress.
Restart ==
    /\ last_tick.kind \notin {"init", "restart"}
    /\ monitoring_system' = MonitoringSystemInit
    /\ last_tick' = [NoTick EXCEPT
                        !.kind = "restart",
                        !.outage_alerted =
                            /\ last_tick.kind = "all_down"
                            /\ last_tick.outage_alerted]
    /\ UNCHANGED <<shutdown_event, tasks, host, metrics>>
    /\ UNCHANGED <<tnom, alert_yml, profile, emitted, responses,
                   healthy_apis>>

NextRestart ==
    EmptyStoreTick \/ AllDownTick \/ CollectFailedTick \/ MonitorTick
        \/ Restart

SpecRestart == Init /\ [][NextRestart]_vars

\* A long epoch: every tick reports the epoch of the only row, the wallet
\* is full, the miss counter is 0 and both channels deliver.  The tick
\* record counts the unsigned ticks of the epoch.
LongEpochTick ==
    /\ \E signed \in BOOLEAN :
          \E q \in {[miss_counter |-> 0,
                     check_for_aggregate_votes |-> signed,
                     current_epoch |-> read_last_recorded_epoch(tnom),
                     wallet_balance |-> 5000000]} :
          \E st \in {monitoring_tick(tnom, monitoring_system, alert_yml, q,
                                     TRUE, 0)} :
              /\ \A e \in DOMAIN st.db :
                    st.db[e].consecutive_misses <= MaxConsecutive
              /\ signed \/ last_tick.unsigned_ticks < MaxTotal
              /\ tnom' = st.db
              /\ monitoring_system' = st.ms
              /\ last_tick' =
                    [NoTick EXCEPT
                       !.kind = "monitor",
                       !.query_data = q,
                       !.new_epoch = st.new_epoch,
                       !.insert_data = st.insert_data,
                       !.log = st.log,
                       !.completed = ~st.raised,
                       !.streak = next_streak(last_tick, q),
                       !.unsigned_ticks =
                           IF signed THEN last_tick.unsigned_ticks
                           ELSE last_tick.unsigned_ticks + 1]
              /\ emitted' = emitted \cup
                    {<<m, q.current_epoch>> :
                        m \in Summaries(st.log) \cap EpochScoped}
    /\ UNCHANGED <<shutdown_event, tasks, host, metrics>>
    /\ UNCHANGED <<alert_yml, profile, responses, healthy_apis>>

InitLongEpoch ==
    /\ tnom \in {[e \in {e0} |-> SeedRow(e0)] : e0 \in 0..1}
    /\ monitoring_system = MonitoringSystemInit
    /\ alert_yml \in AlertConfigs
    /\ profile = "signing"
    /\ last_tick = NoTick
    /\ emitted = {}
    /\ responses = [i \in 1..NumApis |-> NoResponse]
    /\ healthy_apis = <<>>
    /\ shutdown_event = FALSE
    /\ metrics = NoMetrics
    /\ host = NoHost
    /\ tasks = NoTasks

NextLongEpoch == LongEpochTick

SpecLongEpoch == InitLongEpoch /\ [][NextLongEpoch]_vars

\* The store functions on their own: one call on a table of up to
\* MaxKey + 1 rows.  args holds the arguments of the call, completed
\* whether it returned without raising.
StoreRecords ==
    {[SeedRow(k) EXCEPT !.api_cons_miss = a, !.consecutive_misses = c] :
        k \in 0..MaxKey, a \in 0..MaxKey, c \in 0..1}

StoreTables ==
    UNION {{t \in [K -> StoreRecords] : \A k \in K : t[k].slash_epoch = k} :
              K \in SUBSET (0..MaxKey)}

StoreFields == allowed_columns \cup {"slash_epoch", "rowid"}

StoreWrite ==
    /\ last_tick.kind = "init"
    /\ \E r \in StoreRecords :
          /\ tnom' = write_epoch_data(tnom, r)
          /\ last_tick' = [NoTick EXCEPT !.kind = "write",
                                         !.args = <<r>>,
                                         !.completed = TRUE]
    /\ UNCHANGED <<shutdown_event, tasks, host, metrics>>
    /\ UNCHANGED <<monitoring_system, alert_yml, profile, emitted, responses,
                   healthy_apis>>

StoreOverwrite ==
    /\ last_tick.kind = "init"
    /\ \E epoch \in 0..MaxKey, field \in StoreFields, value \in {0, 7} :
          /\ tnom' = overwrite_single_field(tnom, epoch, field, value)
          /\ last_tick' =
                [NoTick EXCEPT
                   !.kind = "overwrite",
                   !.args = <<epoch, field, value>>,
                   !.completed = ~overwrite_single_field_raises(field)]
    /\ UNCHANGED <<shutdown_event, tasks, host, metrics>>
    /\ UNCHANGED <<monitoring_system, alert_yml, profile, emitted, responses,
                   healthy_apis>>

InitStore ==
    /\ tnom \in StoreTables
    /\ monitoring_system = MonitoringSystemInit
    /\ alert_yml = [pagerduty_alerts |-> TRUE, telegram_alerts |-> TRUE]
    /\ profile = "signing"
    /\ last_tick = NoTick
    /\ emitted = {}
    /\ responses = [i \in 1..NumApis |-> NoResponse]
    /\ healthy_apis = <<>>
    /\ shutdown_event = FALSE
    /\ metrics = NoMetrics
    /\ host = NoHost
    /\ tasks = NoTasks

NextStore == StoreWrite \/ StoreOverwrite

SpecStore == InitStore /\ [][NextStore]_vars

\* check_apis on its own: every probe outcome of the configured list.
Probe ==
    /\ \E r \in ProbeInputs :
          /\ responses' = r
          /\ healthy_apis' = check_apis(r)
    /\ UNCHANGED <<shutdown_event, tasks, host, metrics>>
    /\ UNCHANGED <<tnom, monitoring_system, alert_yml, profile, last_tick,
                   emitted>>

InitProbe ==
    /\ tnom = EmptyTable
    /\ monitoring_system = MonitoringSystemInit
    /\ alert_yml = [pagerduty_alerts |-> TRUE, telegram_alerts |-> TRUE]
    /\ profile = "outage"
    /\ last_tick = NoTick
    /\ emitted = {}
    /\ responses = [i \in 1..NumApis |-> NoResponse]
    /\ healthy_apis = <<>>
    /\ shutdown_event = FALSE
    /\ metrics = NoMetrics
    /\ host = NoHost
    /\ tasks = NoTasks

NextProbe == Probe

SpecProbe == InitProbe /\ [][NextProbe]_vars

(***************************************************************************)
(* The supervisor: main() after the tasks are created, the signal handler  *)
(* and graceful_shutdown.  Every step of a task runs from one suspension   *)
(* point to the next.                                                      *)
(***************************************************************************)
engine ==
    <<tnom, monitoring_system, alert_yml, profile, emitted, responses,
      healthy_apis,
      host,
      metrics>>

Workers == {"monitoring_task", "health_check_task_obj", "prometheus_task"}

\* SIGINT or SIGTERM: handle_shutdown.  last_tick records where the three
\* workers were.
Signal ==
    /\ tasks["main"].pc # "returned"
    /\ ~shutdown_event
    /\ shutdown_event' = TRUE
    /\ last_tick' = [NoTick EXCEPT
                        !.kind = "signal",
                        !.args = <<tasks["monitoring_task"].pc,
                                   tasks["health_check_task_obj"].pc,
                                   tasks["prometheus_task"].pc>>]
    /\ UNCHANGED <<engine, tasks>>

MonitoringLoopStep ==
    /\ tasks["monitoring_task"].pc \notin Exited
    /\ \E pc \in monitoring_loop(tasks["monitoring_task"].pc) :
          tasks' = [tasks EXCEPT !["monitoring_task"].pc =
                       IF cancelled("monitoring_task") THEN "done" ELSE pc]
    /\ UNCHANGED <<engine, last_tick, shutdown_event>>

HealthCheckStep ==
    /\ tasks["health_check_task_obj"].pc \notin Exited
    /\ \E pc \in run_health_check(tasks["health_check_task_obj"].pc) :
          tasks' = [tasks EXCEPT !["health_check_task_obj"].pc =
                       IF cancelled("health_check_task_obj") THEN "done"
                       ELSE pc]
    /\ UNCHANGED <<engine, last_tick, shutdown_event>>

\* start_metrics_server: create the update task and serve until the
\* shutdown trigger or a cancellation; the finally block cancels the
\* update task.
PrometheusStep ==
    /\ \/ /\ tasks["prometheus_task"].pc = "start"
          /\ tasks' =
                IF cancelled("prometheus_task")
                THEN [tasks EXCEPT !["prometheus_task"].pc = "done"]
                ELSE [tasks EXCEPT !["prometheus_task"].pc = "serve",
                                   !["update_task"].pc = "start"]
       \/ /\ tasks["prometheus_task"].pc = "serve"
          /\ cancelled("prometheus_task") \/ shutdown_event
          /\ tasks' = [cancel({"update_task"}) EXCEPT
                          !["prometheus_task"].pc = "done"]
    /\ UNCHANGED <<engine, last_tick, shutdown_event>>

UpdateStep ==
    /\ tasks["update_task"].pc \notin Exited
    /\ \E pc \in periodic_metric_update(tasks["update_task"].pc) :
          tasks' = [tasks EXCEPT !["update_task"].pc =
                       IF cancelled("update_task") THEN "done" ELSE pc]
    /\ UNCHANGED <<engine, last_tick, shutdown_event>>

\* main(): await shutdown_event.wait(), then graceful_shutdown: cancel the
\* workers and gather them for at most 10 seconds.  When main() returns,
\* asyncio.run cancels the tasks that are left.
SupervisorStep ==
    /\ \/ /\ tasks["main"].pc = "wait"
          /\ shutdown_event
          /\ tasks' = [cancel(Workers) EXCEPT !["main"].pc = "gather"]
       \/ /\ tasks["main"].pc = "gather"
          /\ tasks' = [cancel(DOMAIN tasks \ {"main"}) EXCEPT
                          !["main"].pc = "returned"]
    /\ UNCHANGED <<engine, last_tick, shutdown_event>>

InitShutdown ==
    /\ tnom \in {[e \in {e0} |-> SeedRow(e0)] : e0 \in 0..1}
    /\ monitoring_system = MonitoringSystemInit
    /\ alert_yml \in [pagerduty_alerts : {TRUE}, telegram_alerts : {FALSE},
                       health_check_enabled : BOOLEAN,
                       prometheus_client_enabled : BOOLEAN]
    /\ profile = "signing"
    /\ last_tick = NoTick
    /\ emitted = {}
    /\ responses = [i \in 1..NumApis |-> NoResponse]
    /\ healthy_apis = <<1>>
    /\ shutdown_event = FALSE
    /\ metrics = NoMetrics
    /\ host = NoHost
    /\ tasks =
          [NoTasks EXCEPT
             !["main"].pc = "wait",
             !["monitoring_task"].pc = "start",
             !["health_check_task_obj"].pc =
                 IF alert_yml.health_check_enabled THEN "start" ELSE "absent",
             !["prometheus_task"].pc =
                 IF alert_yml.prometheus_client_enabled THEN "start"
                 ELSE "absent"]

NextShutdown ==
    Signal \/ MonitoringLoopStep \/ HealthCheckStep \/ PrometheusStep
        \/ UpdateStep \/ SupervisorStep

\* The event loop runs every task that is ready, and every awaited
\* operation (request with a timeout, sleep) completes.
SpecShutdown ==
    /\ InitShutdown
    /\ [][NextShutdown]_vars
    /\ WF_vars(MonitoringLoopStep)
    /\ WF_vars(HealthCheckStep)
    /\ WF_vars(PrometheusStep)
    /\ WF_vars(UpdateStep)
    /\ WF_vars(SupervisorStep)

(***************************************************************************)
(* Start-up: main() from the argument parsing to the creation of the       *)
(* tasks, in one step.                                                     *)
(***************************************************************************)
Hosts ==
    [config_path_exists : BOOLEAN, alert_path_exists : BOOLEAN,
     init_and_check_db_raises : BOOLEAN, schema_raises : BOOLEAN,
     config_data : SUBSET ConfigFields,
     alert_data : SUBSET {"telegram_alert", "pagerduty_alert"},
     telegram_alerts : BOOLEAN, pagerduty_alerts : BOOLEAN,
     health_check_enabled : BOOLEAN, prometheus_client_enabled : BOOLEAN,
     started : {FALSE}, exit_code : {None}]

Startup ==
    /\ ~host.started
    /\ host' = [host EXCEPT !.started = TRUE,
                            !.exit_code = main_exit_code(host)]
    /\ tasks' =
          IF main_exit_code(host) # None THEN tasks
          ELSE [NoTasks EXCEPT
                  !["main"].pc = "wait",
                  !["monitoring_task"].pc = "start",
                  !["health_check_task_obj"].pc =
                      IF host.health_check_enabled THEN "start"
                      ELSE "absent",
                  !["prometheus_task"].pc =
                      IF host.prometheus_client_enabled THEN "start"
                      ELSE "absent"]
    /\ UNCHANGED <<tnom, monitoring_system, alert_yml, profile, last_tick,
                   emitted, responses, healthy_apis, shutdown_event, metrics>>

InitStartup ==
    /\ tnom = EmptyTable
    /\ monitoring_system = MonitoringSystemInit
    /\ alert_yml = [pagerduty_alerts |-> TRUE, telegram_alerts |-> TRUE]
    /\ profile = "signing"
    /\ last_tick = NoTick
    /\ emitted = {}
    /\ responses = [i \in 1..NumApis |-> NoResponse]
    /\ healthy_apis = <<>>
    /\ shutdown_event = FALSE
    /\ metrics = NoMetrics
    /\ tasks = NoTasks
    /\ host \in Hosts

NextStartup == Startup

SpecStartup == InitStartup /\ [][NextStartup]_vars

(***************************************************************************)
(* The database set-up on its own: a file system with or without the      *)
(* directories and the file, the table in a current or an older schema.   *)
(***************************************************************************)
\* The tables of an older version lack some of the columns that were
\* added later.
\* The position of column c in the table.
column_index(columns, c) == CHOOSE i \in 1..Len(columns) : columns[i] = c

\* INSERT INTO tnom VALUES (?, ..., ?): the i-th value of the parameter
\* tuple, which lists the fields in the order of expected_columns, goes to
\* the i-th column of the table.
insert_values(columns, data) ==
    [c \in Range(columns) |->
        data[expected_columns[column_index(columns, c)]]]

\* write_epoch_data on a table whose columns are in the given order: the
\* INSERT by position, the UPDATE of a key conflict by name.
write_epoch_data_at(columns, db, data) ==
    IF Len(columns) # Len(expected_columns)
    THEN [raised |-> TRUE, db |-> db]
    ELSE IF insert_values(columns, data).slash_epoch \notin DOMAIN db
    THEN [raised |-> FALSE,
          db |-> [e \in DOMAIN db
                         \cup {insert_values(columns, data).slash_epoch} |->
                     IF e \in DOMAIN db THEN db[e]
                     ELSE insert_values(columns, data)]]
    ELSE [raised |-> FALSE, db |-> write_epoch_data(db, data)]

OldColumns ==
    {SelectSeq(expected_columns, LAMBDA c : c \notin missing) :
        missing \in SUBSET default_columns}

SchemaRow(columns, epoch, v) ==
    [c \in Range(columns) |-> IF c = "slash_epoch" THEN epoch ELSE v]

SchemaTables ==
    UNION {[K -> {3, 7}] : K \in SUBSET (0..MaxKey)}

SchemaHosts ==
    {h \in [wd_is_cwd : BOOLEAN, cwd_dir : BOOLEAN, wd_dir : BOOLEAN,
            db_file : BOOLEAN, columns : OldColumns \cup {<<>>},
            calls : {<<>>}, raised : {FALSE}] :
        /\ h.wd_is_cwd => (h.cwd_dir = h.wd_dir)
        /\ h.db_file => h.wd_dir
        /\ h.db_file <=> (h.columns # <<>>)}

InitAndCheckDb ==
    /\ Len(host.calls) < MaxCalls
    /\ host' = init_and_check_db(host)
    /\ UNCHANGED <<tnom, monitoring_system, alert_yml, profile, last_tick,
                   emitted, responses, healthy_apis, shutdown_event, tasks,
                   metrics>>

\* main() migrates the schema right after a set-up that did not raise.
CheckAndUpdateSchema ==
    /\ Len(host.calls) < MaxCalls
    /\ host.calls # <<>>
    /\ host.calls[Len(host.calls)] = "init_and_check_db"
    /\ ~host.raised
    /\ \E r \in {check_and_update_database_schema(host, tnom)} :
          /\ host' = r.host
          /\ tnom' = r.db
    /\ UNCHANGED <<monitoring_system, alert_yml, profile, last_tick,
                   emitted, responses, healthy_apis, shutdown_event, tasks,
                   metrics>>

\* The records written to a migrated table.
SchemaRecords ==
    {[slash_epoch |-> k, miss_counter_events |-> 4,
      miss_counter_p1_executed |-> 1, miss_counter_p2_executed |-> 1,
      miss_counter_p3_executed |-> 0, unsigned_oracle_events |-> 6,
      price_feed_addr_balance |-> 5000000,
      small_balance_alert_executed |-> 0,
      very_small_balance_alert_executed |-> 0,
      consecutive_misses |-> 2, api_cons_miss |-> k] : k \in 0..MaxKey}

\* The first state write of the monitor loop after the migration.
WriteAfterMigration ==
    /\ Len(host.calls) < MaxCalls
    /\ host.calls # <<>>
    /\ host.calls[Len(host.calls)] = "check_and_update_database_schema"
    /\ \E r \in SchemaRecords :
          \E w \in {write_epoch_data_at(host.columns, tnom, r)} :
              /\ tnom' = w.db
              /\ last_tick' = [NoTick EXCEPT !.kind = "write",
                                             !.args = <<r>>,
                                             !.completed = ~w.raised]
    /\ host' = [host EXCEPT !.calls = Append(@, "write_epoch_data")]
    /\ UNCHANGED <<monitoring_system, alert_yml, profile, emitted,
                   responses, healthy_apis, shutdown_event, tasks, metrics>>

InitSchema ==
    /\ host \in SchemaHosts
    /\ \E t \in SchemaTables :
          tnom = [e \in (IF host.db_file THEN DOMAIN t ELSE {}) |->
                     SchemaRow(host.columns, e, t[e])]
    /\ monitoring_system = MonitoringSystemInit
    /\ alert_yml = [pagerduty_alerts |-> TRUE, telegram_alerts |-> TRUE]
    /\ profile = "signing"
    /\ last_tick = NoTick
    /\ emitted = {}
    /\ responses = [i \in 1..NumApis |-> NoResponse]
    /\ healthy_apis = <<>>
    /\ shutdown_event = FALSE
    /\ metrics = NoMetrics
    /\ tasks = NoTasks

NextSchema == InitAndCheckDb \/ CheckAndUpdateSchema \/ WriteAfterMigration

SpecSchema == InitSchema /\ [][NextSchema]_vars

(***************************************************************************)
(* pagerduty_alert_trigger on its own: one call.  last_tick holds the      *)
(* arguments and the outcome.                                              *)
(***************************************************************************)
Severities ==
    {"critical", "CRITICAL", "Critical", "error", "ERROR", "Error",
     "warning", "WARNING", "Warning", "info", "INFO", "Info",
     "fatal", "FATAL", "Warn", "invalid_severity", ""}

PagerDutyCall ==
    /\ last_tick.kind = "init"
    /\ \E severity \in Severities, response \in TriggerResponses :
          last_tick' =
             [kind |-> "pagerduty_alert_trigger",
              args |-> <<severity, response>>,
              call |-> pagerduty_alert_trigger_call(severity, response)]
    /\ UNCHANGED <<tnom, monitoring_system, alert_yml, profile, emitted,
                   responses, healthy_apis, shutdown_event, tasks, host,
                   metrics>>

InitPagerDuty ==
    /\ tnom = EmptyTable
    /\ monitoring_system = MonitoringSystemInit
    /\ alert_yml = [pagerduty_alerts |-> TRUE, telegram_alerts |-> FALSE]
    /\ profile = "signing"
    /\ last_tick = NoTick
    /\ emitted = {}
    /\ responses = [i \in 1..NumApis |-> NoResponse]
    /\ healthy_apis = <<>>
    /\ shutdown_event = FALSE
    /\ metrics = NoMetrics
    /\ host = NoHost
    /\ tasks = NoTasks

NextPagerDuty == PagerDutyCall

SpecPagerDuty == InitPagerDuty /\ [][NextPagerDuty]_vars

(***************************************************************************)
(* create_epoch on its own: one call.                                      *)
(***************************************************************************)
BlockHeights ==
    {Int64(n) : n \in (0..MaxHeight) \cup {3599, 3600, 7199, 7200}}
        \cup {[n |-> 0, beyond |-> TRUE]}

SlashWindows ==
    {Int64(n) : n \in {1, 2, 3, 5, 7, 3600}} \cup {[n |-> 0, beyond |-> TRUE]}

CreateEpoch ==
    /\ last_tick.kind = "init"
    /\ \E h \in BlockHeights, w \in SlashWindows :
          last_tick' = [kind |-> "create_epoch", args |-> <<h, w>>,
                        call |-> create_epoch(h, w)]
    /\ UNCHANGED <<tnom, monitoring_system, alert_yml, profile, emitted,
                   responses, healthy_apis, shutdown_event, tasks, host,
                   metrics>>

NextEpoch == CreateEpoch

SpecEpoch == InitPagerDuty /\ [][NextEpoch]_vars

(***************************************************************************)
(* The metrics update task beside the store operations of the monitor      *)
(* loop.                                                                   *)
(***************************************************************************)
\* The tables a store operation of a tick can leave: an upsert of the row
\* of the last epoch or of the next one, a single-field update of the last
\* row.
TickWrites(db) ==
    {write_epoch_data(db, [SeedRow(e) EXCEPT !.miss_counter_events = m,
                                             !.price_feed_addr_balance = b]) :
        e \in {read_last_recorded_epoch(db),
               read_last_recorded_epoch(db) + 1} \cap (0..MaxKey),
        m \in 0..1, b \in {900000, 5000000}}
    \cup {overwrite_single_field(db, read_last_recorded_epoch(db),
                                 "consecutive_misses", v) : v \in 0..1}

\* A store function opens its connection and executes its statement.
TickBegin ==
    /\ ~host.in_txn
    /\ \E after \in TickWrites(tnom) \ {tnom} :
          host' = [in_txn |-> TRUE, after |-> after,
                   uncommitted |->
                      [e \in DOMAIN after |->
                          half_written(IF e \in DOMAIN tnom THEN tnom[e]
                                       ELSE [NoData EXCEPT !.slash_epoch = e],
                                       after[e])]]
    /\ UNCHANGED <<tnom, monitoring_system, alert_yml, profile, last_tick,
                   emitted, responses, healthy_apis, shutdown_event, tasks,
                   metrics>>

\* The with block ends: commit.
TickCommit ==
    /\ host.in_txn
    /\ tnom' = host.after
    /\ host' = NoTransaction
    /\ UNCHANGED <<monitoring_system, alert_yml, profile, last_tick,
                   emitted, responses, healthy_apis, shutdown_event, tasks,
                   metrics>>

\* One iteration of periodic_metric_update in which both reads succeed.
MetricUpdate ==
    /\ tasks["update_task"].pc \in {"start", "sleep"}
    /\ ~shutdown_event
    /\ metrics' = update_metrics(metrics, tnom, host)
    /\ tasks' = [tasks EXCEPT !["update_task"].pc = "sleep"]
    /\ UNCHANGED <<tnom, monitoring_system, alert_yml, profile, last_tick,
                   emitted, responses, healthy_apis, shutdown_event, host>>

\* An iteration that raises OSError or TimeoutError: logged, retried after
\* 10 seconds.
MetricUpdateRetry ==
    /\ tasks["update_task"].pc \in {"start", "sleep"}
    /\ ~shutdown_event
    /\ tasks' = [tasks EXCEPT !["update_task"].pc = "sleep"]
    /\ last_tick' = [NoTick EXCEPT !.kind = "metrics_retry"]
    /\ UNCHANGED <<tnom, monitoring_system, alert_yml, profile, emitted,
                   responses, healthy_apis, shutdown_event, host, metrics>>

\* An iteration in which a read of the store fails: read_last_recorded_epoch
\* raises sqlite3.Error, or update_metrics turns the error of its read
\* into ValueError.  Neither is caught by the loop: the task ends.
MetricUpdateRaises ==
    /\ tasks["update_task"].pc \in {"start", "sleep"}
    /\ ~shutdown_event
    /\ tasks' = [tasks EXCEPT !["update_task"].pc = "done"]
    /\ last_tick' = [NoTick EXCEPT !.kind = "metrics_raised"]
    /\ UNCHANGED <<tnom, monitoring_system, alert_yml, profile, emitted,
                   responses, healthy_apis, shutdown_event, host, metrics>>

\* The loop condition after a signal.
MetricUpdateStops ==
    /\ tasks["update_task"].pc \in {"start", "sleep"}
    /\ shutdown_event
    /\ tasks' = [tasks EXCEPT !["update_task"].pc = "done"]
    /\ UNCHANGED <<tnom, monitoring_system, alert_yml, profile, last_tick,
                   emitted, responses, healthy_apis, shutdown_event, host,
                   metrics>>

\* create_prometheus_client has set the gauges from the row of the last
\* epoch; the update task is created.
InitMetrics ==
    /\ tnom \in {[e \in {e0} |-> SeedRow(e0)] : e0 \in 0..MaxKey}
    /\ monitoring_system = MonitoringSystemInit
    /\ alert_yml = [pagerduty_alerts |-> TRUE, telegram_alerts |-> TRUE]
    /\ profile = "signing"
    /\ last_tick = NoTick
    /\ emitted = {}
    /\ responses = [i \in 1..NumApis |-> NoResponse]
    /\ healthy_apis = <<1>>
    /\ shutdown_event = FALSE
    /\ host = NoTransaction
    /\ metrics = update_metrics(NoMetrics, tnom, host)
    /\ tasks = [NoTasks EXCEPT !["main"].pc = "wait",
                               !["monitoring_task"].pc = "start",
                               !["prometheus_task"].pc = "serve",
                               !["update_task"].pc = "start"]

NextMetrics ==
    TickBegin \/ TickCommit \/ MetricUpdate \/ MetricUpdateRetry
        \/ MetricUpdateRaises \/ MetricUpdateStops \/ Signal

\* The update task is scheduled, and a store that is read again and again
\* is eventually read with success.
SpecMetrics ==
    /\ InitMetrics
    /\ [][NextMetrics]_vars
    /\ SF_vars(MetricUpdate)
    /\ WF_vars(TickCommit)

(***************************************************************************)
(* check_aggregate_vote on its own: one call against an endpoint.          *)
(***************************************************************************)
Pairs == {"ubtc:uusd", "ueth:uusd"}

ExchangeRates ==
    {<<>>} \cup {<<a>> : a \in Pairs \cup {""}}
        \cup {<<a, b>> : a \in Pairs \cup {""}, b \in Pairs \cup {""}}

VoteHosts ==
    [status : {OK, NOT_FOUND}, code : {None, CODE_ERROR, 3},
     has_aggregate_vote : BOOLEAN, exchange_rates : ExchangeRates,
     targets_status : {OK}, vote_targets : SUBSET Pairs]
    \cup
    [status : {OK, NOT_FOUND}, code : {None, CODE_ERROR, 3},
     has_aggregate_vote : BOOLEAN, exchange_rates : ExchangeRates,
     targets_status : {NOT_FOUND, CLIENT_TIMEOUT}, vote_targets : {{}}]

CheckAggregateVote ==
    /\ last_tick.kind = "init"
    /\ last_tick' = [kind |-> "check_aggregate_vote", args |-> <<>>,
                     call |-> check_aggregate_vote(host)]
    /\ UNCHANGED <<tnom, monitoring_system, alert_yml, profile, emitted,
                   responses, healthy_apis, shutdown_event, tasks, host,
                   metrics>>

InitVote ==
    /\ tnom = EmptyTable
    /\ monitoring_system = MonitoringSystemInit
    /\ alert_yml = [pagerduty_alerts |-> TRUE, telegram_alerts |-> FALSE]
    /\ profile = "signing"
    /\ last_tick = NoTick
    /\ emitted = {}
    /\ responses = [i \in 1..NumApis |-> NoResponse]
    /\ healthy_apis = <<1>>
    /\ shutdown_event = FALSE
    /\ metrics = NoMetrics
    /\ host \in VoteHosts
    /\ tasks = NoTasks

NextVote == CheckAggregateVote

SpecVote == InitVote /\ [][NextVote]_vars

(***************************************************************************)
(* run_health_check on its own, beside the signal handler.                 *)
(***************************************************************************)
HealthHosts ==
    [interval : {-1, 0, 1, 30}, max_iterations : {None} \cup (0..MaxIterations),
     iteration : {0}, pings : {0}, raised : {FALSE}]

\* The argument checks that precede the loop.
HealthCheckValidate ==
    /\ tasks["health_check_task_obj"].pc = "start"
    /\ IF interval_raises(host.interval)
       THEN /\ host' = [host EXCEPT !.raised = TRUE]
            /\ tasks' = [tasks EXCEPT !["health_check_task_obj"].pc = "done"]
       ELSE /\ host' = host
            /\ tasks' = [tasks EXCEPT !["health_check_task_obj"].pc = "loop"]
    /\ UNCHANGED <<tnom, monitoring_system, alert_yml, profile, last_tick,
                   emitted, responses, healthy_apis, shutdown_event,
                   metrics>>

\* The top of the while loop; the request of dead_man_switch_trigger is
\* sent in the same step of the event loop.
HealthCheckLoop ==
    /\ tasks["health_check_task_obj"].pc = "loop"
    /\ health_check_loop(host) = "ping" => host.pings < MaxPings
    /\ tasks' = [tasks EXCEPT !["health_check_task_obj"].pc =
                     health_check_loop(host)]
    /\ host' = IF health_check_loop(host) = "ping"
               THEN [host EXCEPT !.pings = @ + 1]
               ELSE host
    /\ UNCHANGED <<tnom, monitoring_system, alert_yml, profile, last_tick,
                   emitted, responses, healthy_apis, shutdown_event,
                   metrics>>

\* The ping returns (answer, timeout of 10 seconds or logged error).
HealthCheckPinged ==
    /\ tasks["health_check_task_obj"].pc = "ping"
    /\ tasks' = [tasks EXCEPT !["health_check_task_obj"].pc = "wait"]
    /\ UNCHANGED <<tnom, monitoring_system, alert_yml, profile, last_tick,
                   emitted, responses, healthy_apis, shutdown_event, host,
                   metrics>>

\* wait_for(shutdown_event.wait(), timeout=interval) returns: the flag is
\* set or the interval has passed.
HealthCheckWaited ==
    /\ tasks["health_check_task_obj"].pc = "wait"
    /\ tasks' = [tasks EXCEPT !["health_check_task_obj"].pc = "loop"]
    /\ host' = [host EXCEPT !.iteration = @ + 1]
    /\ UNCHANGED <<tnom, monitoring_system, alert_yml, profile, last_tick,
                   emitted, responses, healthy_apis, shutdown_event,
                   metrics>>

InitHealth ==
    /\ tnom = EmptyTable
    /\ monitoring_system = MonitoringSystemInit
    /\ alert_yml = [pagerduty_alerts |-> TRUE, telegram_alerts |-> FALSE]
    /\ profile = "signing"
    /\ last_tick = NoTick
    /\ emitted = {}
    /\ responses = [i \in 1..NumApis |-> NoResponse]
    /\ healthy_apis = <<1>>
    /\ shutdown_event = FALSE
    /\ metrics = NoMetrics
    /\ host \in HealthHosts
    /\ tasks = [NoTasks EXCEPT !["main"].pc = "wait",
                               !["health_check_task_obj"].pc = "start"]

NextHealth ==
    HealthCheckValidate \/ HealthCheckLoop \/ HealthCheckPinged
        \/ HealthCheckWaited \/ Signal

\* The event loop runs the task when it is ready; a ping ends within its
\* timeout and the wait within the interval.
SpecHealth ==
    /\ InitHealth
    /\ [][NextHealth]_vars
    /\ WF_vars(HealthCheckValidate)
    /\ WF_vars(HealthCheckLoop)
    /\ WF_vars(HealthCheckPinged)
    /\ WF_vars(HealthCheckWaited)

(***************************************************************************)
(* Properties.                                                             *)
(***************************************************************************)
TickEpoch(t) == t.query_data.current_epoch
Signed(t) == t.query_data.check_for_aggregate_votes
Balance(t) == t.query_data.wallet_balance
HealthyTick(t) == t.kind \in {"monitor", "collect_failed"}

\* C1: for each alert kind scoped to an epoch (consecutive, total, critical,
\* p1, p2, p3) and each epoch e, at most one alert of that kind is emitted
\* for e: a tick never hands to a channel an alert whose (kind, epoch) pair
\* was already handed to one by an earlier tick.
C1_AtMostOncePerEpoch ==
    [][\A m \in EpochScoped :
          (last_tick'.kind = "monitor" /\ m \in Summaries(last_tick'.log))
          => <<m, TickEpoch(last_tick')>> \notin emitted]_vars

\* C2: the stored unsigned_oracle_events of an epoch equals the number of
\* completed ticks of that epoch that were unsigned: every completed tick
\* leaves the count of its epoch one higher than before when it was unsigned
\* and unchanged when it was signed, counting from 0 for an epoch without
\* a row.
C2_UnsignedEventsCounted ==
    [][(last_tick'.kind = "monitor" /\ last_tick'.completed)
       => LET e == TickEpoch(last_tick')
              before == IF e \in DOMAIN tnom
                        THEN tnom[e].unsigned_oracle_events ELSE 0
          IN  /\ e \in DOMAIN tnom'
              /\ tnom'[e].unsigned_oracle_events =
                    before + (IF Signed(last_tick') THEN 0 ELSE 1)]_vars

\* C3: on an empty table, a tick whose endpoints are healthy and answer
\* every query inserts the row of the tick's epoch and emits no alert.
C3_FirstTickInsertsRow ==
    last_tick.kind = "empty_store"
    => /\ TickEpoch(last_tick) \in DOMAIN tnom
       /\ last_tick.log = <<>>

\* C4: after every completed tick with signed_this_tick = true in epoch e,
\* the row of e has consecutive_misses = 0.
C4_SignedTickResetsConsecutive ==
    (last_tick.kind = "monitor" /\ last_tick.completed /\ Signed(last_tick))
    => /\ TickEpoch(last_tick) \in DOMAIN tnom
       /\ tnom[TickEpoch(last_tick)].consecutive_misses = 0

\* C4 witness: a completed signed tick on a row that held a streak.
C4_Witness ==
    /\ last_tick.kind = "monitor" /\ last_tick.completed /\ Signed(last_tick)
    /\ last_tick.insert_data.consecutive_misses >= 2
    /\ tnom[TickEpoch(last_tick)].consecutive_misses = 0

BalanceLatches ==
    {[threshold |-> ONE_NIBI, field |-> "small_balance_alert_executed",
      critical |-> "Price feeder wallet balance has less than 1 NIBI!",
      recovery |-> "Price feeder wallet balance has more than 1 NIBI!"],
     [threshold |-> ZERO_PT_ONE,
      field |-> "very_small_balance_alert_executed",
      critical |-> "Price feeder wallet balance has less than 0.1 NIBI!",
      recovery |-> "Price feeder wallet balance has more than 0.1 NIBI!"]}

\* The channel calls of a tick that carry the given summary and severity.
Calls(t, summary, severity) ==
    {i \in 1..Len(t.log) :
        t.log[i].summary = summary /\ t.log[i].severity = severity}

\* C5: on every tick that collected its data, for each threshold T
\* independently: balance < T with the row's latch at 0 emits the critical
\* alert and sets the latch; balance >= T with the latch set emits the info
\* recovery alert and clears the latch; otherwise no alert of the threshold
\* is emitted and the latch keeps its value.  (insert_data holds the latches
\* of the row as the state write left them.)
C5_BalanceAlerts ==
    last_tick.kind = "monitor"
    => \A a \in BalanceLatches :
          LET e == TickEpoch(last_tick)
              latch == last_tick.insert_data[a.field]
              low == Balance(last_tick) < a.threshold
              crit == Calls(last_tick, a.critical, "critical")
              info == Calls(last_tick, a.recovery, "info")
          IN  /\ e \in DOMAIN tnom
              /\ (low /\ latch = 0)
                 => crit # {} /\ info = {} /\ tnom[e][a.field] = 1
              /\ (~low /\ latch # 0)
                 => info # {} /\ crit = {} /\ tnom[e][a.field] = 0
              /\ ((low /\ latch # 0) \/ (~low /\ latch = 0))
                 => crit = {} /\ info = {} /\ tnom[e][a.field] = latch

\* C6: a balance latch that is 1 in the latest row stays 1 in the latest
\* row of every later tick, across epoch transitions, until a tick observes
\* balance >= the latch's threshold, and it never returns to 0 without the
\* info recovery alert of that latch on the same tick.
C6_BalanceLatchPersists ==
    [][\A a \in BalanceLatches :
          (/\ tnom # EmptyTable
           /\ tnom[read_last_recorded_epoch(tnom)][a.field] = 1
           /\ tnom'[read_last_recorded_epoch(tnom')][a.field] = 0)
          => /\ last_tick'.kind = "monitor"
             /\ Balance(last_tick') >= a.threshold
             /\ Calls(last_tick', a.recovery, "info") # {}]_vars

ApiDown == "Alert: API not working!"
ApiUp == "Alert: API working again!"

\* C7: during an outage the critical "API not working!" alert goes out on
\* the third consecutive all-down tick and on no other, and on that tick the
\* persisted api_cons_miss is 3.
C7_ApiDownOnceOnThirdTick ==
    last_tick.kind = "all_down"
    => /\ (Calls(last_tick, ApiDown, "critical") # {})
          <=> (last_tick.down_streak = API_CONS_MISS_THRESHOLD)
       /\ (last_tick.down_streak = API_CONS_MISS_THRESHOLD)
          => tnom[read_last_recorded_epoch(tnom)].api_cons_miss = 3

\* C8: the first healthy tick after an outage for which "API not working!"
\* went out emits the info "API working again!" alert and resets
\* api_consecutive_misses and the persisted api_cons_miss to 0; a healthy
\* tick that does not follow such an outage emits no recovery alert.
C8_ApiRecovery ==
    [][HealthyTick(last_tick')
       => LET after_alerted_outage ==
                  last_tick.kind = "all_down" /\ last_tick.outage_alerted
          IN  /\ (Calls(last_tick', ApiUp, "info") # {})
                 <=> after_alerted_outage
              /\ after_alerted_outage
                 => /\ monitoring_system'.api_consecutive_misses = 0
                    /\ tnom'[read_last_recorded_epoch(tnom)].api_cons_miss
                          = 0]_vars

Responded == {i \in 1..NumApis : responses[i] # NoResponse}

\* C9: check_apis returns exactly the endpoints that responded and whose
\* height is within 25 blocks of the highest responding height, each once
\* and in the order of the configured list; it returns the empty list when
\* no endpoint responded.
C9_HealthyEndpoints ==
    /\ \A j \in 1..Len(healthy_apis) : healthy_apis[j] \in Responded
    /\ \A j, k \in 1..Len(healthy_apis) :
          j < k => healthy_apis[j] < healthy_apis[k]
    /\ \A i \in Responded :
          (\E j \in 1..Len(healthy_apis) : healthy_apis[j] = i)
          <=> (\A k \in Responded : responses[k] - responses[i] <= 25)
    /\ Responded = {} => healthy_apis = <<>>

\* C9 witness: one endpoint failed, one is exactly 25 blocks behind the
\* highest and kept, one is further behind and dropped.
C9_Witness ==
    /\ healthy_apis = <<1, 3>>
    /\ responses[2] # NoResponse
    /\ responses[3] - responses[1] = MAX_BLOCK_HEIGHT_DIFF

ConsecutiveAlert == "consecutive unsigned events detected!"

\* C11: within one epoch, after k consecutive unsigned ticks that follow a
\* signed tick of the same epoch the row's consecutive_misses is k; the
\* critical "consecutive unsigned events" alert goes out on the tick at
\* which k reaches 3 (unless it already went out for the epoch) and on no
\* tick with k below 3.
C11_ConsecutiveStreak ==
    [][LET t == last_tick'
           e == TickEpoch(t)
           k == t.streak
       IN  (t.kind = "monitor" /\ k # None /\ k >= 1)
           => /\ e \in DOMAIN tnom'
              /\ tnom'[e].consecutive_misses = k
              /\ k < CONSECUTIVE_MISSES_THRESHOLD
                 => Calls(t, ConsecutiveAlert, "critical") = {}
              /\ (k = CONSECUTIVE_MISSES_THRESHOLD
                  /\ <<ConsecutiveAlert, e>> \notin emitted)
                 => Calls(t, ConsecutiveAlert, "critical") # {}]_vars

TotalAlert == "Total unsigned events exceeded threshold!"
CriticalAlert == "CRITICAL: Unsigned events at critical level!"

\* C12: within one epoch, the tick on which the number of unsigned ticks
\* reaches 10 emits the critical "Total unsigned events" alert, and the tick
\* on which it reaches 20 emits the "CRITICAL: Unsigned events" alert.
C12_TotalAlerts ==
    (last_tick.kind = "monitor" /\ ~Signed(last_tick))
    => /\ last_tick.unsigned_ticks = P2_UNSIGNED_EV_THR
          => Calls(last_tick, TotalAlert, "critical") # {}
       /\ last_tick.unsigned_ticks = P1_UNSIGNED_EV_THR
          => Calls(last_tick, CriticalAlert, "critical") # {}

MissTiers ==
    {[field |-> "miss_counter_p3_executed", threshold |-> P3_MISS_THR,
      level |-> "warning", summary |-> "Current miss event is above 10"],
     [field |-> "miss_counter_p2_executed", threshold |-> P2_MISS_THR,
      level |-> "critical", summary |-> "Current miss event is above 25"],
     [field |-> "miss_counter_p1_executed", threshold |-> P1_MISS_THR,
      level |-> "critical", summary |-> "Current miss event is above 50"]}

\* C13: on a tick whose row has miss_counter_events above 10 (25, 50) with
\* the latch p3 (p2, p1) at 0, the warning (critical, critical) alert is
\* emitted, the latch is 1 in the row afterwards and the tick completes.
C13_MissParameterAlerts ==
    (last_tick.kind = "monitor" /\ last_tick.insert_data # NoData)
    => \A a \in MissTiers :
          (/\ last_tick.insert_data.miss_counter_events > a.threshold
           /\ last_tick.insert_data[a.field] = 0)
          => /\ Calls(last_tick, a.summary, a.level) # {}
             /\ tnom[TickEpoch(last_tick)][a.field] = 1
             /\ last_tick.completed

\* C14: for every complete record r and every table, with or without a row
\* of key r.slash_epoch, write_epoch_data(r) followed by
\* read_current_epoch_data(r.slash_epoch) returns r in all eleven fields.
C14_WriteReadRoundTrip ==
    [][last_tick'.kind = "write"
       => LET r == last_tick'.args[1]
          IN  /\ check_if_epoch_is_recorded(tnom', r.slash_epoch)
              /\ read_current_epoch_data(tnom', r.slash_epoch) = r]_vars

\* C15: calling write_epoch_data(r) a second time leaves the table as the
\* first call left it.
C15_WriteIdempotent ==
    [][last_tick'.kind = "write"
       => write_epoch_data(tnom', last_tick'.args[1]) = tnom']_vars

\* The columns of the table other than its key.
NonKeyColumns == DOMAIN NoData \ {"slash_epoch"}

\* C16: overwrite_single_field accepts exactly the ten non-key column
\* names; for any other name it raises and leaves the table unchanged, and
\* for an accepted name it changes only that column of the row of the given
\* epoch.
C16_OverwriteSingleField ==
    [][last_tick'.kind = "overwrite"
       => LET epoch == last_tick'.args[1]
              field == last_tick'.args[2]
              value == last_tick'.args[3]
          IN  /\ last_tick'.completed <=> field \in NonKeyColumns
              /\ ~last_tick'.completed => tnom' = tnom
              /\ last_tick'.completed
                 => /\ DOMAIN tnom' = DOMAIN tnom
                    /\ \A e \in DOMAIN tnom : \A c \in DOMAIN tnom[e] :
                          tnom'[e][c] = IF e = epoch /\ c = field
                                        THEN value ELSE tnom[e][c]]_vars

\* C16 witness: an accepted call changed a column of an existing row.
C16_Witness ==
    /\ last_tick.kind = "overwrite" /\ last_tick.completed
    /\ last_tick.args[1] \in DOMAIN tnom
    /\ last_tick.args[3] = 7
    /\ tnom[last_tick.args[1]][last_tick.args[2]] = 7

BothChannels == alert_yml.pagerduty_alerts /\ alert_yml.telegram_alerts

\* The channel calls of a tick whose delivery failed.
FailedCalls(t) ==
    {i \in 1..Len(t.log) : t.log[i].outcome \in {"raised", "failed"}}

\* C17: with both channels enabled, when delivery of an alert fails on one
\* channel the other channel is still attempted for that alert, and the
\* tick continues to its end instead of being aborted.
C17_ChannelFailureIsolated ==
    (last_tick.kind \in {"monitor", "all_down"} /\ BothChannels)
    => \A i \in FailedCalls(last_tick) :
          /\ \E j \in 1..Len(last_tick.log) :
                /\ last_tick.log[j].summary = last_tick.log[i].summary
                /\ last_tick.log[j].channel # last_tick.log[i].channel
          /\ last_tick.completed

\* C18: when sending an alert fails on a channel, the latch or flag of the
\* alert is set all the same: the balance latch in the row (cleared, for a
\* recovery alert) and the alert_sent flag of the signing and API alerts.
C18_LatchSetOnFailure ==
    \A i \in FailedCalls(last_tick) :
       LET m == last_tick.log[i].summary
       IN  /\ \A a \in BalanceLatches :
                /\ m = a.critical
                   => tnom[TickEpoch(last_tick)][a.field] = 1
                /\ m = a.recovery
                   => tnom[TickEpoch(last_tick)][a.field] = 0
           /\ m = ApiDown
              => monitoring_system.alert_sent.healthy_api_missing
           /\ m = ApiUp
              => ~monitoring_system.alert_sent.healthy_api_missing
           /\ m = ConsecutiveAlert
              => monitoring_system.alert_sent.consecutive
           /\ m = TotalAlert => monitoring_system.alert_sent.total
           /\ m = CriticalAlert => monitoring_system.alert_sent.critical

\* C19: when the process stops and starts again within the same epoch, no
\* alert already emitted for that epoch is emitted again: the first tick
\* after the restart, when it is of the last stored epoch, hands to a
\* channel no signing or miss-parameter alert that was handed to one for
\* this epoch before, and no balance alert whose latch is set in the row;
\* and the all-down iterations after the restart do not send
\* "API not working!" again for an outage that had it before the restart.
C19_NoDuplicateAfterRestart ==
    [][/\ (/\ last_tick.kind = "restart"
           /\ last_tick'.kind = "monitor"
           /\ TickEpoch(last_tick') = read_last_recorded_epoch(tnom))
          => /\ \A m \in EpochScoped :
                   m \in Summaries(last_tick'.log)
                   => <<m, TickEpoch(last_tick')>> \notin emitted
             /\ \A a \in BalanceLatches :
                   tnom[TickEpoch(last_tick')][a.field] = 1
                   => a.critical \notin Summaries(last_tick'.log)
       /\ (/\ last_tick.kind = "restart"
           /\ last_tick'.kind = "all_down"
           /\ last_tick.outage_alerted)
          => ApiDown \notin Summaries(last_tick'.log)]_vars

AllExited == \A t \in DOMAIN tasks : tasks[t].pc \in Exited

\* C20: a SIGINT or SIGTERM sets the shared shutdown flag, and once the
\* flag is set, wherever the monitor loop, the pinger and the metrics
\* server are, every task eventually exits and main() returns.
C20_ShutdownTerminates ==
    /\ [](last_tick.kind = "signal" => shutdown_event)
    /\ shutdown_event ~> AllExited

\* The signal came while the monitor loop slept in the all-endpoints-down
\* retry loop, the pinger waited and the server served; all have exited.
C20_Witness ==
    /\ last_tick.kind = "signal"
    /\ last_tick.args = <<"retry_sleep", "wait", "serve">>
    /\ AllExited
    /\ tasks["main"].pc = "returned"

\* The failures of the start-up: a configuration file is missing, the
\* database cannot be initialised or migrated, a configuration file cannot
\* be loaded, or no alert channel is enabled.
StartupFails(h) ==
    \/ ~h.config_path_exists
    \/ ~h.alert_path_exists
    \/ h.init_and_check_db_raises
    \/ h.schema_raises
    \/ load_config_yml_raises(h.config_data)
    \/ load_alert_yml_raises(h.alert_data)
    \/ (~h.telegram_alerts /\ ~h.pagerduty_alerts)

\* C21: when the start-up fails, the process exits with code 1 and no
\* worker task (monitor loop, health pinger, metrics server) has been
\* started.
C21_StartupFailureExits ==
    (host.started /\ StartupFails(host))
    => /\ host.exit_code = 1
       /\ \A t \in DOMAIN tasks : tasks[t].pc = "absent"

\* Both files exist, the database is set up, the configuration has its
\* fields, but no channel is enabled: the process has exited with code 1.
C21_Witness ==
    /\ host.started
    /\ host.config_path_exists /\ host.alert_path_exists
    /\ ~host.init_and_check_db_raises /\ ~host.schema_raises
    /\ host.config_data = ConfigFields
    /\ ~host.telegram_alerts /\ ~host.pagerduty_alerts
    /\ host.exit_code = 1

\* C22: a tick in which a collector query yields no data (miss counter,
\* slash window, latest block or wallet balance) is aborted without
\* inserting or updating any row and without emitting an alert.
C22_FailedCollectTouchesNothing ==
    [][last_tick'.kind = "collect_failed"
       => /\ tnom' = tnom
          /\ last_tick'.log = <<>>]_vars

\* C23: the monitor loop never ends because of an error inside a tick: it
\* ends only when shutdown has been signalled or the task is cancelled,
\* and the back-off after an exception is followed by a new tick (the
\* probe) unless the loop then ends for one of these two reasons.
C23_LoopSurvivesErrors ==
    [][/\ (tasks["monitoring_task"].pc # "done"
           /\ tasks'["monitoring_task"].pc = "done")
          => (shutdown_event \/ tasks["monitoring_task"].must_cancel)
       /\ (tasks["monitoring_task"].pc = "backoff"
           /\ tasks'["monitoring_task"].pc # "backoff")
          => tasks'["monitoring_task"].pc \in {"check_apis", "done"}]_vars

\* An exception was raised in a tick while shutdown was not set: the loop
\* is in its back-off.
C23_Witness ==
    /\ tasks["monitoring_task"].pc = "backoff"
    /\ ~shutdown_event
    /\ ~tasks["monitoring_task"].must_cancel

\* The step is a call of check_and_update_database_schema.
Migrated ==
    host'.calls = Append(host.calls, "check_and_update_database_schema")

\* C24: the set-up followed by the migration, on a table that lacks some
\* of consecutive_misses, api_cons_miss and miss_counter_p1..p3_executed,
\* yields a table with the full column set; the added columns read 0 in
\* the rows that were there; no column is dropped or renamed and every row
\* keeps its key and the values of the columns it had.
C24_MigrationAddsColumns ==
    [][(Migrated /\ Range(host.columns) # Range(expected_columns))
       => /\ Range(host'.columns) = Range(expected_columns)
          /\ Range(host.columns) \subseteq Range(host'.columns)
          /\ DOMAIN tnom' = DOMAIN tnom
          /\ \A e \in DOMAIN tnom :
                /\ DOMAIN tnom'[e] = Range(expected_columns)
                /\ \A c \in DOMAIN tnom[e] : tnom'[e][c] = tnom[e][c]
                /\ \A c \in DOMAIN tnom'[e] \ DOMAIN tnom[e] :
                      tnom'[e][c] = 0]_vars

\* A table that lacked consecutive_misses and api_cons_miss and held two
\* rows has been migrated.
C24_Witness ==
    /\ host.calls = <<"init_and_check_db", "check_and_update_database_schema">>
    /\ host.columns =
          SelectSeq(expected_columns,
                    LAMBDA c : c \notin {"consecutive_misses",
                                         "api_cons_miss"})
          \o <<"consecutive_misses", "api_cons_miss">>
    /\ DOMAIN tnom = 0..MaxKey
    /\ \A e \in DOMAIN tnom :
          tnom[e].consecutive_misses = 0 /\ tnom[e].miss_counter_events # 0

\* The step is a call of init_and_check_db.
Ensured == host'.calls = Append(host.calls, "init_and_check_db")

\* C25: init_and_check_db(working_dir), whether working_dir is the current
\* directory or not, leaves the directory working_dir/chain_database and
\* the table in existence, a table it creates having the full column set;
\* the rows that were there are preserved, and a second call changes
\* nothing.
C25_InitAndCheckDb ==
    [][Ensured
       => /\ ~host'.raised
          /\ host'.wd_dir /\ host'.db_file
          /\ ~host.db_file => host'.columns = expected_columns
          /\ host.db_file => host'.columns = host.columns
          /\ tnom' = tnom
          /\ (host.calls # <<>>
              /\ host.calls[Len(host.calls)] = "init_and_check_db")
             => [host' EXCEPT !.calls = <<>>] = [host EXCEPT !.calls = <<>>]
      ]_vars

\* The dedup key a response of session.trigger carries (None: it has none).
DedupKey(response) ==
    CASE response.type = "dict" -> response.dedup_key
      [] response.type = "str" -> response.value
      [] OTHER -> NoKey

\* C26: pagerduty_alert_trigger called with a severity that, lower-cased,
\* is not one of critical, error, warning, info raises ValueError and
\* triggers no event; with a valid severity it triggers exactly one event
\* and, when the trigger answers, returns the dedup key of the response.
C26_SeverityValidated ==
    last_tick.kind = "pagerduty_alert_trigger"
    => IF last_tick.args[1] \in
             {"critical", "CRITICAL", "Critical", "error", "ERROR", "Error",
              "warning", "WARNING", "Warning", "info", "INFO", "Info"}
       THEN /\ last_tick.call.events = 1
            /\ last_tick.call.raised # "ValueError"
            /\ last_tick.args[2].type # "raises"
               => /\ last_tick.call.raised = ""
                  /\ last_tick.call.result = DedupKey(last_tick.args[2])
       ELSE /\ last_tick.call.events = 0
            /\ last_tick.call.raised = "ValueError"

\* A call with the severity in upper case has triggered one event and
\* returned the key of the response.
C26_Witness ==
    /\ last_tick.kind = "pagerduty_alert_trigger"
    /\ last_tick.args = <<"CRITICAL", [type |-> "dict", dedup_key |-> "k1"]>>
    /\ last_tick.call = [events |-> 1, raised |-> "", result |-> "k1"]

\* q is the floor of h / w.
IsFloor(q, h, w) == q * w <= h /\ h < (q + 1) * w

C28_MetricsFollowStore ==
    []<>(\/ shutdown_event
         \/ metrics.gauges =
               gauges_of(tnom[read_last_recorded_epoch(tnom)]))

C30_SameEpochWriteStoresTick ==
    (last_tick.kind = "monitor" /\ last_tick.completed
        /\ ~last_tick.new_epoch)
    => /\ TickEpoch(last_tick) \in DOMAIN tnom
       /\ tnom[TickEpoch(last_tick)].miss_counter_events =
             last_tick.query_data.miss_counter
       /\ tnom[TickEpoch(last_tick)].price_feed_addr_balance =
             Balance(last_tick)

\* C31: the state write of a same-epoch tick leaves the five latches,
\* consecutive_misses and api_cons_miss of the row of that epoch as they
\* were.
C31_StateWritePreserves ==
    (last_tick.kind = "monitor" /\ last_tick.frame.written)
    => last_tick.frame.after = last_tick.frame.before

\* C31 witness: a same-epoch tick wrote a new balance on a row with a
\* latch set and a streak.
C31_Witness ==
    /\ last_tick.kind = "monitor" /\ last_tick.frame.written
    /\ last_tick.frame.before.small_balance_alert_executed = 1
    /\ last_tick.frame.after.small_balance_alert_executed = 1
    /\ last_tick.insert_data.api_cons_miss = TickEpoch(last_tick)
    /\ Balance(last_tick) >= ONE_NIBI

\* Every pair of the response is one of the vote targets.
PairsInTargets(h) ==
    \A i \in 1..Len(h.exchange_rates) :
        h.exchange_rates[i] # "" => h.exchange_rates[i] \in h.vote_targets

\* C32: check_aggregate_vote returns true iff the aggregate-vote request
\* returned status 200 without the error code and every pair of
\* exchange_rate_tuples is in the vote-targets set; in every other case,
\* a failed vote-targets query included, it returns false and does not
\* raise.
C32_AggregateVoteResult ==
    last_tick.kind = "check_aggregate_vote"
    => /\ ~last_tick.call.raised
       /\ last_tick.call.result <=>
             /\ host.status = OK
             /\ host.code # CODE_ERROR
             /\ host.has_aggregate_vote
             /\ host.targets_status = OK
             /\ PairsInTargets(host)

\* C33: on the first tick of an epoch (no row yet, the epoch differs from
\* last_alert_epoch) the consecutive-miss count restarts from 0: after the
\* tick the row of the new epoch has consecutive_misses 1 if the tick was
\* unsigned and 0 if it was signed, whatever the count of the previous
\* epoch was.
C33_NewEpochRestartsCount ==
    (last_tick.kind = "monitor" /\ last_tick.completed
        /\ last_tick.new_epoch)
    => /\ TickEpoch(last_tick) \in DOMAIN tnom
       /\ tnom[TickEpoch(last_tick)].consecutive_misses =
             IF Signed(last_tick) THEN 0 ELSE 1

\* C34: run_health_check rejects interval <= 0 with an error before any
\* ping; otherwise it sends at most max_iterations pings when a cap is
\* given, starts no ping after the shutdown flag is set, and ends once the
\* flag is set or the cap is reached.
C34_HealthCheckLoop ==
    /\ [](/\ interval_raises(host.interval)
             => host.pings = 0
                /\ tasks["health_check_task_obj"].pc \in {"start", "done"}
          /\ host.raised <=>
                /\ interval_raises(host.interval)
                /\ tasks["health_check_task_obj"].pc = "done"
          /\ host.max_iterations # None
             => host.pings <= host.max_iterations)
    /\ [][shutdown_event => host'.pings = host.pings]_vars
    /\ (shutdown_event \/ host.iteration = host.max_iterations)
          ~> (tasks["health_check_task_obj"].pc = "done")

\* C34 witness: the cap ended the loop after its pings, without a signal.
C34_Witness ==
    /\ tasks["health_check_task_obj"].pc = "done"
    /\ ~shutdown_event /\ ~host.raised
    /\ host.max_iterations = 2 /\ host.pings = 2

\* C35: the set of epochs that have a row never shrinks: no operation
\* deletes a row or changes the slash_epoch of an existing row, and each
\* row is the only one of its slash_epoch.
C35_RowsNeverDeleted ==
    /\ [](\A e \in DOMAIN tnom : tnom[e].slash_epoch = e)
    /\ [][/\ DOMAIN tnom \subseteq DOMAIN tnom'
          /\ \A e \in DOMAIN tnom :
                tnom'[e].slash_epoch = tnom[e].slash_epoch]_vars

\* C35 witness: a same-epoch write on a table of two rows, the older of
\* which is the one the UPDATE reaches.
C35_Witness ==
    /\ last_tick.kind = "monitor" /\ last_tick.frame.written
    /\ TickEpoch(last_tick) = 1
    /\ last_tick.insert_data.api_cons_miss = 0
    /\ DOMAIN tnom = {0, 1}

\* C36: write_epoch_data(r) changes no row other than the one of key
\* r.slash_epoch: every row of another epoch has the same values after the
\* call as before, whether the call inserts or updates.
C36_WriteTouchesOneRow ==
    [][last_tick'.kind = "write"
       => \A e \in DOMAIN tnom \ {last_tick'.args[1].slash_epoch} :
             /\ e \in DOMAIN tnom'
             /\ tnom'[e] = tnom[e]]_vars

\* C37: on a table whose missing columns were added by
\* check_and_update_database_schema, so that its column order differs from
\* that of a new table, write_epoch_data stores every field of the record
\* in the column of the same name: read_current_epoch_data returns the
\* record that was written.
C37_WriteAfterMigration ==
    [][(last_tick'.kind = "write" /\ host.columns # expected_columns)
       => LET r == last_tick'.args[1]
          IN  /\ last_tick'.completed
              /\ check_if_epoch_is_recorded(tnom', r.slash_epoch)
              /\ read_current_epoch_data(tnom', r.slash_epoch) = r]_vars

\* C38: the dedup flags of alert_sent that are scoped to an epoch, and
\* last_alert_epoch, are reset only when the observed epoch advances:
\* last_alert_epoch never goes back to a lower epoch, and while it stays the
\* same a flag that is set stays set, on a tick of a lagging endpoint and
\* on the API-health call with the last epoch of the store as well.
C38_FlagsResetOnAdvanceOnly ==
    [][monitoring_system.last_alert_epoch # None
       => /\ monitoring_system'.last_alert_epoch >=
                monitoring_system.last_alert_epoch
          /\ monitoring_system'.last_alert_epoch =
                monitoring_system.last_alert_epoch
             => \A f \in {"consecutive", "total", "critical"} :
                   monitoring_system.alert_sent[f]
                   => monitoring_system'.alert_sent[f]]_vars

\* C39: after every tick, completed or aborted by a notifier error, the
\* row of the tick's epoch has very_small_balance_alert_executed = 1 only
\* with small_balance_alert_executed = 1; after every completed tick each
\* balance latch is 1 exactly when the observed balance is below the
\* threshold of the latch.
C39_BalanceLatchesConsistent ==
    (last_tick.kind = "monitor" /\ TickEpoch(last_tick) \in DOMAIN tnom)
    => /\ tnom[TickEpoch(last_tick)].very_small_balance_alert_executed = 1
          => tnom[TickEpoch(last_tick)].small_balance_alert_executed = 1
       /\ last_tick.completed
          => \A a \in BalanceLatches :
                tnom[TickEpoch(last_tick)][a.field] = 1
                <=> Balance(last_tick) < a.threshold

\* C40: check_apis returns a non-empty list if and only if at least one
\* endpoint responded; every endpoint that reports the highest height among
\* the responders is in the result.
C40_NonEmptyIffResponded ==
    /\ healthy_apis # <<>> <=> Responded # {}
    /\ \A i \in Responded :
          (\A k \in Responded : responses[k] <= responses[i])
          => \E j \in 1..Len(healthy_apis) : healthy_apis[j] = i

\* C40 witness: one endpoint failed, one is too far behind, and the one
\* with the highest height is the result.
C40_Witness ==
    /\ healthy_apis = <<2>>
    /\ responses[1] # NoResponse
    /\ responses[3] = NoResponse

====
